---- MODULE Spec2Model ----
(***************************************************************************)
(* A model of openclaw-mem: the injection sanitizer, the markdown chunker, *)
(* the vector-store indexer, the observation recorder / auto-capture, the  *)
(* brain router and the two-phase search.                                  *)
(*                                                                         *)
(* Strings are sequences of tokens.  A token stands for one character      *)
(* ("sp", "nl", "(", "x", ...) or for one atomic lexeme ("fetch",          *)
(* "http://", "[FILTERED]", ...); len(), slicing, strip(), split() and     *)
(* the regular expressions of the source work on these sequences.          *)
(***************************************************************************)
EXTENDS Integers, Sequences, FiniteSets, TLC

VARIABLES
    text,        \* sanitizer: the input text
    san_pc,      \* sanitizer: "input" | "once" | "twice" | "checked"
    result,      \* sanitizer: sanitize(text)
    result2,     \* sanitizer: sanitize(sanitize(text))
    matches,     \* sanitizer: check(text)[1], the matched pattern numbers
    doc,         \* chunker: the markdown content, each character with its position
    chunk_pc,    \* chunker: "input" | "done"
    max_size,    \* chunker: the max_size argument
    overlap,     \* chunker: the overlap argument
    chunks,      \* chunker: the chunks chunk_markdown returned
    files,       \* file system: path -> [content, mtime] of the markdown files that exist
    index_state, \* IndexState file: path -> time of last indexing
    table_exists,\* vector store: does the table exist
    store,       \* vector store: the records of the table, in insertion order
    now,         \* the clock (time.time(), and the minute of datetime.now())
    last_op,     \* the operation that ran last and what it returned
    brain,       \* file system: brain file path -> content, for the brain files that exist
    obs_log,     \* file system: the entries of memory/observations.md, in file order
    capture_state, \* CaptureState file: does it exist, is it cut short, and its seen_hashes
    session,     \* file system: the lines of a session transcript, in file order
    obs_log_exists, \* file system: does memory/observations.md exist (with its header)
    index_run    \* indexer: the call in progress, its position and its local variables

sanVars == <<text, san_pc, result, result2, matches>>
chunkVars == <<doc, chunk_pc, max_size, overlap, chunks>>
fsVars == <<files, index_state>>
dbVars == <<table_exists, store>>
brainVars == <<brain>>
captureVars == <<obs_log, capture_state, session, obs_log_exists>>
vars == <<sanVars, chunkVars, fsVars, dbVars, now, last_op, brainVars, captureVars, index_run>>

(***************************************************************************)
(* The resting state of each component; a specification of one component   *)
(* keeps the others at rest.                                               *)
(***************************************************************************)
SanIdle ==
    /\ text = <<>>
    /\ san_pc = "idle"
    /\ result = <<>>
    /\ result2 = <<>>
    /\ matches = {}

ChunkIdle ==
    /\ doc = <<>>
    /\ chunk_pc = "idle"
    /\ max_size = 0
    /\ overlap = 0
    /\ chunks = <<>>

IndexIdle ==
    /\ files = <<>>
    /\ index_state = <<>>
    /\ table_exists = FALSE
    /\ store = <<>>
    /\ now = 1
    /\ last_op = [op |-> "none"]
    /\ index_run = [pc |-> "idle"]

BrainIdle == brain = <<>>

CaptureIdle ==
    /\ obs_log = <<>>
    /\ capture_state = [exists |-> FALSE, corrupt |-> FALSE, seen_hashes |-> {}]
    /\ session = <<>>
    /\ obs_log_exists = FALSE

(***************************************************************************)
(* Generic helpers on sequences                                            *)
(***************************************************************************)
RECURSIVE Flatten(_)
Flatten(ss) == IF ss = <<>> THEN <<>> ELSE Head(ss) \o Flatten(Tail(ss))

SeqsUpTo(S, n) == UNION {[1..k -> S] : k \in 0..n}

(***************************************************************************)
(* Regular expressions (Python re, backtracking, greedy).                  *)
(* A pattern is a tree; Ends(n, txt, i) is the list of positions at which  *)
(* a match of n that starts at i can end, in the order the backtracking    *)
(* matcher tries them: its head is the match re takes.                     *)
(***************************************************************************)
Eps == [t |-> "eps"]
Lit(S) == [t |-> "lit", s |-> S]
Tok(c) == Lit({c})
Cat2(a, b) == [t |-> "seq", a |-> a, b |-> b]
Or2(a, b) == [t |-> "alt", a |-> a, b |-> b]
Star(a) == [t |-> "star", a |-> a]
Lazy(a) == [t |-> "lazy", a |-> a]      \* a*?
Bol == [t |-> "bol"]                     \* ^ with re.MULTILINE
Eol == [t |-> "eol"]                     \* $ with re.MULTILINE
Bos == [t |-> "bos"]                     \* ^ without re.MULTILINE
Opt(a) == Or2(a, Eps)
Plus(a) == Cat2(a, Star(a))

RECURSIVE Cat(_)
Cat(ns) == IF Len(ns) = 1 THEN ns[1] ELSE Cat2(Head(ns), Cat(Tail(ns)))

RECURSIVE Or(_)
Or(ns) == IF Len(ns) = 1 THEN ns[1] ELSE Or2(Head(ns), Or(Tail(ns)))

RECURSIVE Ends(_, _, _)
Ends(n, txt, i) ==
    CASE n.t = "eps" -> <<i>>
      [] n.t = "bol" -> IF i = 1 \/ txt[i - 1] = "nl" THEN <<i>> ELSE <<>>
      [] n.t = "eol" -> IF i = Len(txt) + 1 \/ txt[i] = "nl" THEN <<i>> ELSE <<>>
      [] n.t = "bos" -> IF i = 1 THEN <<i>> ELSE <<>>
      [] n.t = "lit" -> IF i <= Len(txt) /\ txt[i] \in n.s THEN <<i + 1>> ELSE <<>>
      [] n.t = "seq" ->
            LET ea == Ends(n.a, txt, i)
            IN  Flatten([k \in 1..Len(ea) |-> Ends(n.b, txt, ea[k])])
      [] n.t = "alt" -> Ends(n.a, txt, i) \o Ends(n.b, txt, i)
      [] n.t = "star" ->
            LET ea == Ends(n.a, txt, i)
            IN  Flatten([k \in 1..Len(ea) |->
                            IF ea[k] > i THEN Ends(n, txt, ea[k]) ELSE <<>>])
                \o <<i>>
      [] n.t = "lazy" ->
            LET ea == Ends(n.a, txt, i)
            IN  <<i>> \o
                Flatten([k \in 1..Len(ea) |->
                            IF ea[k] > i THEN Ends(n, txt, ea[k]) ELSE <<>>])

\* pattern.search(text): is there a match anywhere
Search(n, txt) == \E i \in 1..(Len(txt) + 1) : Ends(n, txt, i) # <<>>

\* pattern.search(text, pos): the leftmost match that starts at or after
\* index from; start and end are the index of its first token and the index
\* after its last token
RECURSIVE SearchFrom(_, _, _)
SearchFrom(n, txt, from) ==
    IF from > Len(txt) + 1 THEN [found |-> FALSE]
    ELSE LET e == Ends(n, txt, from)
         IN  IF e # <<>> THEN [found |-> TRUE, start |-> from, end |-> e[1]]
             ELSE SearchFrom(n, txt, from + 1)

\* pattern.sub(repl, text): leftmost non-overlapping matches replaced by repl
RECURSIVE SubFrom(_, _, _, _)
SubFrom(n, repl, txt, i) ==
    IF i > Len(txt) THEN <<>>
    ELSE LET e == Ends(n, txt, i)
         IN  IF e # <<>> /\ e[1] > i
             THEN repl \o SubFrom(n, repl, txt, e[1])
             ELSE <<txt[i]>> \o SubFrom(n, repl, txt, i + 1)

Sub(n, repl, txt) == SubFrom(n, repl, txt, 1)

(***************************************************************************)
(* sanitizer.py                                                            *)
(***************************************************************************)
\* every token of the model
Words == {"ignore", "all", "previous", "instructions", "disregard", "above",
          "forget", "everything", "your", "you", "are", "now", "new",
          "system", "prompt", "<|im_start|>", "send", "the", "api", "key",
          "token", "secret", "password", "credential", "curl", "wget",
          "fetch", "http://", "base64", "encode", "decode", "eval", "exec",
          "must", "should", "act", "as", "pretend", "become", "jailbreak",
          "dan", "mode", "[FILTERED]"}
Chars == {"sp", "nl", "(", ":", ".", "x", "-", "[", "]", "'", "dq"}
\* the lexemes of brain files, observation lines, ids and file names
Markup == {"##", "**", "# Sanguo Brain", "# Eastsea Blog Brain", "# Game Dev Brain",
           "## Architecture Decisions", "## Lessons Learned", "## Common Mistakes",
           "## Next Phase", "## Preferences", "## Observations",
           "decision", "architecture", "learning", "error", "mistake", "insight",
           "next", "preference", "t1", "t2", "a", "b", "c",
           "obs:", "observations.md", "memory/", "# Observations"}
ProjectWords == {"sanguo", "Sanguo", "samguk", "portrait", "blog", "eastsea",
                 "post", "jekyll", "game", "godot", "geim", "png"}
Tokens == Words \cup Chars \cup Markup \cup ProjectWords

WS == Lit({"sp", "nl"})             \* \s
Dot == Lit(Tokens \ {"nl"})         \* .  (one or more characters, no newline)
Dot1 == Lit(Chars \ {"nl"})         \* .  where it must be exactly one character
SP == Tok("sp")

INJECTION_PATTERNS == <<
    Cat(<<Tok("ignore"), SP, Opt(Cat2(Tok("all"), SP)), Tok("previous"), SP,
          Tok("instructions")>>),
    Cat(<<Tok("disregard"), SP, Opt(Cat2(Tok("all"), SP)),
          Lit({"previous", "above"})>>),
    Cat(<<Tok("forget"), SP, Lit({"everything", "all", "your"})>>),
    Cat(<<Tok("you"), SP, Tok("are"), SP, Tok("now")>>),
    Cat(<<Tok("new"), SP, Tok("instructions"), Tok(":")>>),
    Cat(<<Tok("system"), SP, Tok("prompt"), Tok(":")>>),
    Cat(<<Tok("<|im_start|>"), Tok("system")>>),
    Cat(<<Tok("send"), SP, Opt(Cat2(Lit({"the", "all", "your"}), SP)),
          Or(<<Cat(<<Tok("api"), Opt(Dot1), Tok("key")>>),
               Lit({"token", "secret", "password", "credential"})>>)>>),
    Cat(<<Tok("curl"), Plus(WS), Tok("http://")>>),
    Cat(<<Tok("wget"), Plus(WS), Tok("http://")>>),
    Cat(<<Tok("fetch"), Star(WS), Tok("("), Star(Dot), Tok("http://")>>),
    Cat(<<Tok("base64"), Tok("."), Lit({"encode", "decode"})>>),
    Cat(<<Tok("eval"), Star(WS), Tok("(")>>),
    Cat(<<Tok("exec"), Star(WS), Tok("(")>>),
    Cat(<<Tok("you"), SP, Lit({"are", "must", "should"}), SP,
          Opt(Cat2(Tok("now"), SP)),
          Or(<<Cat(<<Tok("act"), SP, Tok("as")>>), Lit({"pretend", "become"})>>)>>),
    Tok("jailbreak"),
    Cat(<<Tok("dan"), SP, Tok("mode")>>)
>>

FILTERED == <<"[FILTERED]">>

\* MemorySanitizer.check: (is_safe, matched patterns)
check(txt) == {p \in 1..Len(INJECTION_PATTERNS) : Search(INJECTION_PATTERNS[p], txt)}
is_safe(txt) == check(txt) = {}

\* MemorySanitizer.sanitize: one substitution per pattern, in pattern order
RECURSIVE sanitize_from(_, _)
sanitize_from(txt, p) ==
    IF p > Len(INJECTION_PATTERNS) THEN txt
    ELSE sanitize_from(Sub(INJECTION_PATTERNS[p], FILTERED, txt), p + 1)

sanitize(txt) == sanitize_from(txt, 1)


(***************************************************************************)
(* chunker.py                                                              *)
(* The content handed to chunk_markdown is a sequence of [c, p]: the       *)
(* character c and its position p in the document.  The code's string      *)
(* operations only look at c; the "\n\n" joiners the code inserts carry    *)
(* position 0.  Content(s) is the plain string of s.                       *)
(***************************************************************************)
Content(s) == [k \in 1..Len(s) |-> s[k].c]
Positions(s) == {s[k].p : k \in 1..Len(s)} \ {0}
WithPositions(str) == [k \in 1..Len(str) |-> [c |-> str[k], p |-> k]]
NLNL == <<[c |-> "nl", p |-> 0], [c |-> "nl", p |-> 0]>>

IsSpace(e) == e.c \in {"sp", "nl"}

\* s[a:b] of Python, 0-based, end exclusive, clamped
Slice(s, a, b) == SubSeq(s, a + 1, IF b > Len(s) THEN Len(s) ELSE b)

\* str.strip()
RECURSIVE LStrip(_)
LStrip(s) == IF s # <<>> /\ IsSpace(Head(s)) THEN LStrip(Tail(s)) ELSE s
RECURSIVE RStrip(_)
RStrip(s) == IF s # <<>> /\ IsSpace(s[Len(s)]) THEN RStrip(SubSeq(s, 1, Len(s) - 1)) ELSE s
Strip(s) == RStrip(LStrip(s))

\* re.split(r'(?=^#{2,3}\s)', content, flags=re.MULTILINE): the token "##"
\* is a run of two or three '#'
IsHeaderAt(s, i) ==
    /\ i = 1 \/ s[i - 1].c = "nl"
    /\ s[i].c = "##"
    /\ i < Len(s)
    /\ IsSpace(s[i + 1])

\* the least element of a non-empty set of numbers
Least(S) == CHOOSE x \in S : \A y \in S : x <= y

\* the pieces of s[start..] cut before each header found at i or later
RECURSIVE SplitHeaders(_, _, _)
SplitHeaders(s, start, i) ==
    LET headers == {j \in i..Len(s) : IsHeaderAt(s, j)}
    IN  IF headers = {} THEN <<SubSeq(s, start, Len(s))>>
        ELSE <<SubSeq(s, start, Least(headers) - 1)>>
             \o SplitHeaders(s, Least(headers), Least(headers) + 1)

\* re.split(r'\n\n+', section)
\* the length of the run of newlines that starts at i
NewlineRun(s, i) == Least({j \in i..(Len(s) + 1) : j > Len(s) \/ s[j].c # "nl"}) - i

\* the pieces of s[start..] between the runs of two or more newlines found
\* at i or later
RECURSIVE SplitParagraphs(_, _, _)
SplitParagraphs(s, start, i) ==
    LET breaks == {j \in i..(Len(s) - 1) : s[j].c = "nl" /\ s[j + 1].c = "nl"}
    IN  IF breaks = {} THEN <<SubSeq(s, start, Len(s))>>
        ELSE LET at == Least(breaks)
                 run == NewlineRun(s, at)
             IN  <<SubSeq(s, start, at - 1)>> \o SplitParagraphs(s, at + run, at + run)

\* a sign slip in the stride of _force_split: start = end + overlap
RECURSIVE force_split_from_skip(_, _, _, _)
force_split_from_skip(txt, ms, ov, start) ==
    IF start < Len(txt)
    THEN LET end == start + ms
         IN  <<Slice(txt, start, end)>>
             \o force_split_from_skip(txt, ms, ov, IF ov > 0 THEN end + ov ELSE end)
    ELSE <<>>

\* _force_split(text, max_size, overlap)
RECURSIVE force_split_from(_, _, _, _)
force_split_from(txt, ms, ov, start) ==
    IF start < Len(txt)
    THEN LET end == start + ms
         IN  <<Slice(txt, start, end)>>
             \o force_split_from(txt, ms, ov, IF ov > 0 THEN end - ov ELSE end)
    ELSE <<>>

force_split(txt, ms, ov) == force_split_from(txt, ms, ov, 0)

\* the paragraph loop of chunk_markdown for one section over the limit;
\* out is the list of chunk contents so far
RECURSIVE ParagraphLoop(_, _, _, _, _, _)
ParagraphLoop(paras, k, buffer, out, ms, ov) ==
    IF k > Len(paras)
    THEN IF buffer # <<>> THEN Append(out, buffer) ELSE out
    ELSE LET para == Strip(paras[k])
         IN  IF para = <<>> THEN ParagraphLoop(paras, k + 1, buffer, out, ms, ov)
             ELSE IF Len(buffer) + Len(para) + 2 <= ms
             THEN ParagraphLoop(paras, k + 1,
                                IF buffer # <<>> THEN buffer \o NLNL \o para ELSE para,
                                out, ms, ov)
             ELSE IF buffer # <<>>
             THEN ParagraphLoop(paras, k + 1,
                                IF ov > 0 /\ Len(buffer) > ov
                                THEN SubSeq(buffer, Len(buffer) - ov + 1, Len(buffer))
                                     \o NLNL \o para
                                ELSE para,
                                Append(out, buffer), ms, ov)
             ELSE ParagraphLoop(paras, k + 1, <<>>,
                                out \o force_split(para, ms, ov), ms, ov)

RECURSIVE SectionLoop(_, _, _, _, _)
SectionLoop(sections, k, out, ms, ov) ==
    IF k > Len(sections) THEN out
    ELSE LET section == Strip(sections[k])
         IN  IF section = <<>> THEN SectionLoop(sections, k + 1, out, ms, ov)
             ELSE IF Len(section) <= ms
             THEN SectionLoop(sections, k + 1, Append(out, section), ms, ov)
             ELSE SectionLoop(sections, k + 1,
                              ParagraphLoop(SplitParagraphs(section, 1, 1), 1, <<>>,
                                            out, ms, ov),
                              ms, ov)

\* chunk_markdown(content, source, max_size, overlap): the chunk contents in
\* order; the chunk at place k has chunk_index k - 1
chunk_markdown(content, ms, ov) ==
    SectionLoop(SplitHeaders(content, 1, 1), 1, <<>>, ms, ov)

(***************************************************************************)
(* Hashing, embedding and the vector store (external collaborators)        *)
(***************************************************************************)
RECURSIVE SetToSeq(_)
SetToSeq(S) ==
    IF S = {} THEN <<>>
    ELSE LET x == CHOOSE y \in S : TRUE IN <<x>> \o SetToSeq(S \ {x})

TokenList == SetToSeq(Tokens)
\* ord(): the code of a token is its place in TokenList
CodeOf == [t \in Tokens |-> CHOOSE i \in 1..Len(TokenList) : TokenList[i] = t]
Code(t) == CodeOf[t]

\* the sum of the codes of the tokens of str, token by token
RECURSIVE SumCodesOf(_, _)
SumCodesOf(str, toks) ==
    IF toks = {} THEN 0
    ELSE LET t == CHOOSE x \in toks : TRUE
         IN  Code(t) * Cardinality({k \in 1..Len(str) : str[k] = t})
             + SumCodesOf(str, toks \ {t})

SumCodes(str) == SumCodesOf(str, {str[k] : k \in 1..Len(str)})

\* hashlib.md5(text.encode()).hexdigest(): a deterministic digest of the
\* text under which distinct texts can collide (here: the sum of the
\* character codes); the [:8] and [:16] prefixes keep the digest
md5(str) == ToString(SumCodes(str))

\* Embedder.embed_single: deterministic, a bag of the tokens of the text
embed_single(str) == [t \in {str[k] : k \in 1..Len(str)} |->
                         Cardinality({k \in 1..Len(str) : str[k] = t})]

\* a filter string f'{column} = {q}{value}{q}' as the store's SQL parser
\* reads it: the literal ends at the first quote character q, so a value
\* that contains q leaves trailing input and the parser raises
WhereEq(column, q, value) == <<column, "=", q>> \o value \o <<q>>

\* the first index at or after i where str has c, 0 when there is none
IndexOf(str, c, i) ==
    LET at == {j \in i..Len(str) : str[j] = c}
    IN  IF at = {} THEN 0 ELSE CHOOSE x \in at : \A y \in at : x <= y

ParseWhere(pred) ==
    LET q == pred[3]
        close == IndexOf(pred, q, 4)
    IN  IF close = Len(pred)
        THEN [ok |-> TRUE, column |-> pred[1], value |-> SubSeq(pred, 4, close - 1)]
        ELSE [ok |-> FALSE]

\* table.delete(predicate): the rows left; the caller handles ~ok as a raise
Delete(rows, pred) ==
    LET w == ParseWhere(pred)
    IN  SelectSeq(rows, LAMBDA r : r[w.column] # w.value)

(***************************************************************************)
(* config.py and the file system                                           *)
(***************************************************************************)
DEFAULT_MAX_SIZE == 500
DEFAULT_OVERLAP == 50

\* OBSERVATIONS_FILE, relative to the workspace: memory/observations.md
OBSERVATIONS_FILE == <<"memory/", "observations.md">>

\* the files that can exist, in sorted order (get_files_to_index sorts):
\* INDEX_PATTERNS "memory/*.md", which the observations log matches, and
\* ARCHIVE_INDEX_PATTERNS "memory/archive/*.md"; a path is the directory
\* token followed by the characters of the file name
Paths == << <<"memory/", "a">>, <<"memory/archive/", "a">>, <<"memory/", "b", "'">>,
            <<"memory/", "c", "dq">>, OBSERVATIONS_FILE >>
PathSet == {Paths[k] : k \in 1..Len(Paths)}

\* os.path.basename / source.split("/")[-1]
basename(path) == Tail(path)

\* get_files_to_index(): the existing files that match, sorted
get_files_to_index == SelectSeq(Paths, LAMBDA f : f \in DOMAIN files)

(***************************************************************************)
(* index.py                                                                *)
(***************************************************************************)
\* _make_chunk(content, source, chunk_index)
make_chunk(content, source, chunk_index) ==
    [id |-> basename(source) \o <<":", ToString(chunk_index), ":", md5(content)>>,
     content |-> content,
     source |-> source,
     filename |-> basename(source),
     chunk_index |-> chunk_index]

\* build_records(filepath, tag): the records of the file's current content
build_records(filepath, tag) ==
    LET content == WithPositions(files[filepath].content)
        cs == chunk_markdown(content, DEFAULT_MAX_SIZE, DEFAULT_OVERLAP)
    IN  IF Strip(content) = <<>> THEN <<>>
        ELSE [k \in 1..Len(cs) |->
                LET chunk == make_chunk(Content(cs[k]), filepath, k - 1)
                IN  [id |-> chunk.id,
                     text |-> chunk.content,
                     source |-> chunk.source,
                     filename |-> chunk.filename,
                     chunk_index |-> chunk.chunk_index,
                     tag |-> tag,
                     vector |-> embed_single(chunk.content)]]

\* the loop "for fn in changed_filenames: try: table.delete(...) except: pass"
RECURSIVE DeleteFilenames(_, _)
DeleteFilenames(rows, fns) ==
    IF fns = <<>> THEN rows
    ELSE LET pred == WhereEq("filename", "dq", Head(fns))
         IN  DeleteFilenames(IF ParseWhere(pred).ok THEN Delete(rows, pred) ELSE rows,
                             Tail(fns))

\* state.get(rel_path, 0)
last_indexed(f) == IF f \in DOMAIN index_state THEN index_state[f] ELSE 0

\* a slip in the comparison: a file as old as its entry is taken as changed
Changed_or_equal ==
    SelectSeq(get_files_to_index, LAMBDA f : files[f].mtime >= last_indexed(f))

\* the loop "if mtime > last_indexed: changed.append(filepath)"
Changed == SelectSeq(get_files_to_index, LAMBDA f : files[f].mtime > last_indexed(f))

RECURSIVE RecordsOf(_)
RecordsOf(fs) == IF fs = <<>> THEN <<>> ELSE build_records(Head(fs), <<>>) \o RecordsOf(Tail(fs))

\* the set changed_filenames, in the order the loop visits it
Filenames(fs) == SetToSeq({basename(fs[k]) : k \in 1..Len(fs)})

\* the variables the indexer and its environment leave alone
indexFrame == <<sanVars, chunkVars, brainVars, captureVars>>

\* index_changed(); embed_ok tells whether the embedding provider answers:
\* when it does not, build_records raises in the loop that builds the
\* records, before the table is opened
IndexChanged ==
    \E changed \in {Changed}, embed_ok \in BOOLEAN :
    \E new_records \in {RecordsOf(changed)} :
        /\ UNCHANGED <<indexFrame, index_run, now>>
        /\ IF changed = <<>>
           THEN /\ last_op' = [op |-> "index_changed", changed |-> <<>>, ret |-> 0]
                /\ UNCHANGED <<fsVars, dbVars>>
           ELSE IF ~embed_ok /\ new_records # <<>>
           THEN /\ last_op' = [op |-> "raise", in |-> "index_changed"]
                /\ UNCHANGED <<fsVars, dbVars>>
           ELSE /\ IF table_exists
                   THEN /\ store' = DeleteFilenames(store, Filenames(changed)) \o new_records
                        /\ UNCHANGED table_exists
                   ELSE IF new_records # <<>>
                        THEN /\ table_exists' = TRUE
                             /\ store' = new_records
                        ELSE UNCHANGED dbVars
                /\ index_state' =
                      [f \in DOMAIN index_state \cup {changed[k] : k \in 1..Len(changed)} |->
                          IF \E k \in 1..Len(changed) : changed[k] = f
                          THEN now ELSE index_state[f]]
                /\ last_op' = [op |-> "index_changed", changed |-> changed,
                               ret |-> Len(new_records)]
                /\ UNCHANGED files

\* index_all(): the table is dropped and created from the records of all
\* the files; nothing is written when the files yield no record
IndexAll ==
    \E embed_ok \in BOOLEAN :
    \E all_records \in {RecordsOf(get_files_to_index)} :
        /\ UNCHANGED <<indexFrame, index_run, now, files>>
        /\ IF all_records = <<>>
           THEN /\ last_op' = [op |-> "index_all", ret |-> 0]
                /\ UNCHANGED <<index_state, dbVars>>
           ELSE IF ~embed_ok
           THEN /\ last_op' = [op |-> "raise", in |-> "index_all"]
                /\ UNCHANGED <<index_state, dbVars>>
           ELSE /\ table_exists' = TRUE
                /\ store' = all_records
                /\ index_state' = [f \in DOMAIN index_state \cup DOMAIN files |->
                                      IF f \in DOMAIN files THEN now ELSE index_state[f]]
                /\ last_op' = [op |-> "index_all", ret |-> Len(all_records)]

\* the rows the table may hold: index_single of a file whose old records
\* cannot be deleted adds rows on every call
MaxStore == 4

\* a slip in the order of the calls: the old records are deleted before the
\* records of the file are built
IndexSingle_delete_first ==
    \E filepath \in PathSet, embed_ok \in BOOLEAN :
        /\ UNCHANGED <<indexFrame, index_run, now, files>>
        /\ IF filepath \notin DOMAIN files
           THEN /\ last_op' = [op |-> "exit", in |-> "index_single"]
                /\ UNCHANGED <<index_state, dbVars>>
           ELSE \E records \in {build_records(filepath, <<>>)},
                   pred \in {WhereEq("filename", "dq", basename(filepath))} :
                IF records = <<>>
                THEN /\ last_op' = [op |-> "index_single", filepath |-> filepath, ret |-> 0]
                     /\ UNCHANGED <<index_state, dbVars>>
                ELSE IF ~embed_ok
                THEN /\ last_op' = [op |-> "raise", in |-> "index_single"]
                     /\ store' = IF table_exists /\ ParseWhere(pred).ok
                                 THEN Delete(store, pred) ELSE store
                     /\ UNCHANGED <<index_state, table_exists>>
                ELSE /\ store' = (IF table_exists /\ ParseWhere(pred).ok
                                  THEN Delete(store, pred) ELSE store) \o records
                     /\ Len(store') <= MaxStore
                     /\ table_exists' = TRUE
                     /\ index_state' = [f \in DOMAIN index_state \cup {filepath} |->
                                           IF f = filepath THEN now ELSE index_state[f]]
                     /\ last_op' = [op |-> "index_single", filepath |-> filepath,
                                    ret |-> Len(records)]

\* index_single(filepath): sys.exit(1) for a file that does not exist; the
\* records are built first (the embedding provider may raise), and nothing
\* is deleted or written when the file yields no record
IndexSingle ==
    \E filepath \in PathSet, embed_ok \in BOOLEAN :
        /\ UNCHANGED <<indexFrame, index_run, now, files>>
        /\ IF filepath \notin DOMAIN files
           THEN /\ last_op' = [op |-> "exit", in |-> "index_single"]
                /\ UNCHANGED <<index_state, dbVars>>
           ELSE \E records \in {build_records(filepath, <<>>)},
                   pred \in {WhereEq("filename", "dq", basename(filepath))} :
                IF records = <<>>
                THEN /\ last_op' = [op |-> "index_single", filepath |-> filepath, ret |-> 0]
                     /\ UNCHANGED <<index_state, dbVars>>
                ELSE IF ~embed_ok
                THEN /\ last_op' = [op |-> "raise", in |-> "index_single"]
                     /\ UNCHANGED <<index_state, dbVars>>
                ELSE /\ store' = (IF table_exists /\ ParseWhere(pred).ok
                                  THEN Delete(store, pred) ELSE store) \o records
                     /\ Len(store') <= MaxStore
                     /\ table_exists' = TRUE
                     /\ index_state' = [f \in DOMAIN index_state \cup {filepath} |->
                                           IF f = filepath THEN now ELSE index_state[f]]
                     /\ last_op' = [op |-> "index_single", filepath |-> filepath,
                                    ret |-> Len(records)]

(***************************************************************************)
(* index_changed and index_single call by call: between two calls of a run *)
(* time passes, the user may edit a file, and the run may stop             *)
(***************************************************************************)
\* what the steps of a run leave alone
runFrame == <<indexFrame, files, now>>

\* index_changed(), up to "if not changed: return 0": get_files_to_index,
\* load_state and the comparison of the modification times
IndexChangedStart ==
    /\ index_run.pc = "idle"
    /\ \E changed \in {Changed} :
          IF changed = <<>>
          THEN /\ last_op' = [op |-> "index_changed", changed |-> <<>>, ret |-> 0,
                              read |-> <<>>]
               /\ UNCHANGED index_run
          ELSE /\ index_run' = [pc |-> "build", call |-> "index_changed",
                                changed |-> changed, read |-> <<>>, state |-> index_state]
               /\ UNCHANGED last_op
    /\ UNCHANGED <<runFrame, index_state, dbVars>>

\* index_single(filepath), up to "if not records: return 0": the file is
\* read and its records are built
IndexSingleStart ==
    /\ index_run.pc = "idle"
    /\ \E filepath \in PathSet, embed_ok \in BOOLEAN :
          IF filepath \notin DOMAIN files
          THEN /\ last_op' = [op |-> "exit", in |-> "index_single"]
               /\ UNCHANGED index_run
          ELSE \E records \in {build_records(filepath, <<>>)} :
               IF records = <<>>
               THEN /\ last_op' = [op |-> "index_single", filepath |-> filepath, ret |-> 0]
                    /\ UNCHANGED index_run
               ELSE IF ~embed_ok
               THEN /\ last_op' = [op |-> "raise", in |-> "index_single"]
                    /\ UNCHANGED index_run
               ELSE /\ index_run' = [pc |-> "delete", call |-> "index_single",
                                     changed |-> <<filepath>>, read |-> <<records>>,
                                     state |-> <<>>]
                    /\ UNCHANGED last_op
    /\ UNCHANGED <<runFrame, index_state, dbVars>>

\* index_changed: records = build_records(filepath) for the next changed
\* file; the file is read here
IndexRunBuild ==
    /\ index_run.pc = "build"
    /\ \E f \in {index_run.changed[Len(index_run.read) + 1]}, embed_ok \in BOOLEAN :
       \E records \in {build_records(f, <<>>)} :
          IF ~embed_ok /\ records # <<>>
          THEN /\ last_op' = [op |-> "raise", in |-> "index_changed"]
               /\ index_run' = [pc |-> "idle"]
          ELSE /\ index_run' = [index_run EXCEPT !.read = Append(@, records), !.pc = "stamp"]
               /\ UNCHANGED last_op
    /\ UNCHANGED <<runFrame, index_state, dbVars>>

\* index_changed: state[rel_path] = time.time() for the file just read
IndexRunStamp ==
    /\ index_run.pc = "stamp"
    /\ \E f \in {index_run.changed[Len(index_run.read)]} :
          index_run' = [index_run EXCEPT
                           !.state = [g \in DOMAIN @ \cup {f} |-> IF g = f THEN now ELSE @[g]],
                           !.pc = IF Len(index_run.read) = Len(index_run.changed)
                                  THEN "delete" ELSE "build"]
    /\ UNCHANGED <<runFrame, index_state, dbVars, last_op>>

\* the table.delete calls of the run when the table exists, create_table
\* when it does not
IndexRunDelete ==
    /\ index_run.pc = "delete"
    /\ \E new_records \in {Flatten(index_run.read)} :
          IF table_exists
          THEN /\ store' = DeleteFilenames(store, Filenames(index_run.changed))
               /\ index_run' = [index_run EXCEPT
                                    !.pc = IF new_records # <<>> THEN "add" ELSE "save"]
               /\ UNCHANGED table_exists
          ELSE /\ store' = new_records
               /\ table_exists' = (new_records # <<>>)
               /\ index_run' = [index_run EXCEPT !.pc = "save"]
    /\ UNCHANGED <<runFrame, index_state, last_op>>

\* table.add(new_records)
IndexRunAdd ==
    /\ index_run.pc = "add"
    /\ store' = store \o Flatten(index_run.read)
    /\ Len(store') <= MaxStore
    /\ index_run' = [index_run EXCEPT !.pc = "save"]
    /\ UNCHANGED <<runFrame, index_state, table_exists, last_op>>

\* save_state(state) and the return; index_single loads the state and sets
\* the time of its file here
IndexRunSave ==
    /\ index_run.pc = "save"
    /\ index_state' =
          IF index_run.call = "index_changed" THEN index_run.state
          ELSE [g \in DOMAIN index_state \cup {index_run.changed[1]} |->
                   IF g = index_run.changed[1] THEN now ELSE index_state[g]]
    /\ last_op' = [op |-> index_run.call, changed |-> index_run.changed,
                   filepath |-> index_run.changed[1],
                   ret |-> Len(Flatten(index_run.read)), read |-> index_run.read]
    /\ index_run' = [pc |-> "idle"]
    /\ UNCHANGED <<runFrame, dbVars>>

\* the process ends in the middle of a run (it is killed, a call of the
\* store or of the file system raises)
IndexRunStop ==
    /\ index_run.pc # "idle"
    /\ last_op' = [op |-> "stopped", in |-> index_run.call, at |-> index_run.pc,
                   changed |-> index_run.changed]
    /\ index_run' = [pc |-> "idle"]
    /\ UNCHANGED <<runFrame, index_state, dbVars>>

(***************************************************************************)
(* brain_router.py (with BRAIN_PROJECT_KEYWORDS, BRAIN_TAG_SECTION of      *)
(* config.py).  A brain file is a string of tokens; a heading, the title   *)
(* line, a timestamp and a tag are one token each.                         *)
(***************************************************************************)
\* keyword -> brain file, in the insertion order of the dict; "samguk",
\* "post" and "geim" stand for the three Korean keywords
BRAIN_PROJECT_KEYWORDS == <<
    <<"sanguo", "memory/projects/sanguo.md">>,
    <<"samguk", "memory/projects/sanguo.md">>,
    <<"portrait", "memory/projects/sanguo.md">>,
    <<"blog", "memory/projects/eastsea-blog.md">>,
    <<"eastsea", "memory/projects/eastsea-blog.md">>,
    <<"post", "memory/projects/eastsea-blog.md">>,
    <<"jekyll", "memory/projects/eastsea-blog.md">>,
    <<"game", "memory/projects/game-dev.md">>,
    <<"godot", "memory/projects/game-dev.md">>,
    <<"geim", "memory/projects/game-dev.md">> >>

BRAIN_TAG_SECTION ==
    [tag \in {"decision", "architecture", "learning", "error", "mistake",
              "insight", "next", "preference"} |->
        CASE tag \in {"decision", "architecture"} -> "## Architecture Decisions"
          [] tag = "learning" -> "## Lessons Learned"
          [] tag \in {"error", "mistake"} -> "## Common Mistakes"
          [] tag \in {"insight", "next"} -> "## Next Phase"
          [] tag = "preference" -> "## Preferences"]

\* the level-2 headings: the tokens that start with "## "
H2 == {"## Architecture Decisions", "## Lessons Learned", "## Common Mistakes",
       "## Next Phase", "## Preferences", "## Observations"}

\* str.lower()
LowerTok(t) == IF t = "Sanguo" THEN "sanguo" ELSE t
Lower(str) == [k \in 1..Len(str) |-> LowerTok(str[k])]

\* a in b, on strings
IsSubstring(a, b) ==
    \E i \in 0..(Len(b) - Len(a)) : SubSeq(b, i + 1, i + Len(a)) = a

\* str.strip() on a plain string
StripStr(str) == Content(Strip(WithPositions(str)))

\* str.split('\n')
RECURSIVE SplitLines(_, _, _)
SplitLines(str, start, i) ==
    IF i > Len(str) THEN <<SubSeq(str, start, Len(str))>>
    ELSE IF str[i] = "nl"
         THEN <<SubSeq(str, start, i - 1)>> \o SplitLines(str, i + 1, i + 1)
         ELSE SplitLines(str, start, i + 1)

\* re.sub(r'\s+', ' ', s.strip()).lower()
Normalize(str) == Lower(Sub(Plus(WS), <<"sp">>, StripStr(str)))

\* detect_project(text): the brain file of the first keyword found, or "None"
RECURSIVE detect_project_from(_, _)
detect_project_from(txt, k) ==
    IF k > Len(BRAIN_PROJECT_KEYWORDS) THEN "None"
    ELSE IF IsSubstring(<<LowerTok(BRAIN_PROJECT_KEYWORDS[k][1])>>, Lower(txt))
         THEN BRAIN_PROJECT_KEYWORDS[k][2]
         ELSE detect_project_from(txt, k + 1)

detect_project(txt) == detect_project_from(txt, 1)

\* get_brain_section(tag)
get_brain_section(tag) ==
    IF tag \in DOMAIN BRAIN_TAG_SECTION THEN BRAIN_TAG_SECTION[tag] ELSE "## Observations"

\* the first line of a new brain file, "# {title} Brain"
BrainTitle(path) ==
    CASE path = "memory/projects/sanguo.md" -> "# Sanguo Brain"
      [] path = "memory/projects/eastsea-blog.md" -> "# Eastsea Blog Brain"
      [] path = "memory/projects/game-dev.md" -> "# Game Dev Brain"

\* _ensure_brain_file(filepath): the brain files once the file exists; a
\* new file holds "# {title} Brain\n\n"
ensure_brain_file(files_before, path) ==
    [f \in DOMAIN files_before \cup {path} |->
        IF f \in DOMAIN files_before THEN files_before[f]
        ELSE <<BrainTitle(path), "nl", "nl">>]

\* r'^' + re.escape(section) + r'\s*$' with re.MULTILINE
SectionPattern(section) == Cat(<<Bol, Tok(section), Star(WS), Eol>>)
\* r'^## ' with re.MULTILINE
NextSectionPattern == Cat2(Bol, Lit(H2))
\* r'^-\s*\[.*?\]\s*\*\*\[.*?\]\*\*\s*'
EntryPrefixPattern ==
    Cat(<<Bos, Tok("-"), Star(WS), Tok("["), Lazy(Dot), Tok("]"), Star(WS),
          Tok("**"), Tok("["), Lazy(Dot), Tok("]"), Tok("**"), Star(WS)>>)
\* r'^-\s*'
DashPattern == Cat(<<Bos, Tok("-"), Star(WS)>>)

\* _find_or_create_section(content, section): the content and the index
\* at which the entry is inserted
find_or_create_section(content, section) ==
    LET m == SearchFrom(SectionPattern(section), content, 1)
    IN  IF m.found
        THEN [content |-> content,
              insert_pos |-> IF m.end <= Len(content) /\ content[m.end] = "nl"
                             THEN m.end + 1 ELSE m.end]
        ELSE LET c1 == IF content # <<>> /\ content[Len(content)] = "nl"
                       THEN content ELSE content \o <<"nl">>
                 c2 == c1 \o <<"nl", section, "nl", "nl">>
             IN  [content |-> c2, insert_pos |-> Len(c2) + 1]

\* the text of a line of a section, as _content_already_exists extracts it
CleanLine(line) ==
    LET clean == Sub(EntryPrefixPattern, <<>>, StripStr(line))
    IN  Normalize(IF clean = <<>> THEN Sub(DashPattern, <<>>, StripStr(line)) ELSE clean)

\* the lines between the heading of the section and the next level-2 heading
SectionLines(content, section) ==
    LET m == SearchFrom(SectionPattern(section), content, 1)
        next == SearchFrom(NextSectionPattern, content, m.end)
        section_end == IF next.found THEN next.start ELSE Len(content) + 1
    IN  IF m.found THEN SplitLines(SubSeq(content, m.end, section_end - 1), 1, 1)
        ELSE <<>>

\* a slip in the section bounds: only the heading line is scanned
content_already_exists_heading_only(content, section, entry_text) ==
    LET m == SearchFrom(SectionPattern(section), content, 1)
        lines == IF m.found THEN SplitLines(SubSeq(content, m.start, m.end - 1), 1, 1)
                 ELSE <<>>
        normalized_entry == Normalize(entry_text)
    IN  \E k \in 1..Len(lines) :
            LET normalized_line == CleanLine(lines[k])
            IN  /\ normalized_line # <<>>
                /\ \/ IsSubstring(normalized_entry, normalized_line)
                   \/ IsSubstring(normalized_line, normalized_entry)

\* _content_already_exists(content, section, entry_text)
content_already_exists(content, section, entry_text) ==
    LET lines == SectionLines(content, section)
        normalized_entry == Normalize(entry_text)
    IN  \E k \in 1..Len(lines) :
            LET normalized_line == CleanLine(lines[k])
            IN  /\ normalized_line # <<>>
                /\ \/ IsSubstring(normalized_entry, normalized_line)
                   \/ IsSubstring(normalized_line, normalized_entry)

\* f"- [{timestamp}] **[{tag}]** {text}\n"
EntryLine(timestamp, tag, txt) ==
    <<"-", "sp", "[", timestamp, "]", "sp", "**", "[", tag, "]", "**", "sp">>
    \o txt \o <<"nl">>

\* route_observation_to_brain(text, tag, timestamp, dry_run): the returned
\* path ("None" when no project matches) and the brain files afterwards
route_observation_to_brain(files_before, txt, tag, timestamp, dry_run) ==
    LET brain_rel_path == detect_project(txt)
        section == get_brain_section(tag)
        created == ensure_brain_file(files_before, brain_rel_path)
        content == created[brain_rel_path]
        sec == find_or_create_section(content, section)
        new_content == SubSeq(sec.content, 1, sec.insert_pos - 1)
                       \o EntryLine(timestamp, tag, txt)
                       \o SubSeq(sec.content, sec.insert_pos, Len(sec.content))
    IN  IF brain_rel_path = "None" THEN [ret |-> "None", files |-> files_before]
        ELSE IF dry_run THEN [ret |-> brain_rel_path, files |-> files_before]
        ELSE IF content_already_exists(content, section, txt)
        THEN [ret |-> brain_rel_path, files |-> created]
        ELSE [ret |-> brain_rel_path,
              files |-> [created EXCEPT ![brain_rel_path] = new_content]]

(***************************************************************************)
(* observe.py, index.index_observation and auto_capture.py                 *)
(* An entry of the observation log is [tag, text, by]; by names the        *)
(* command that appended the line ("observe" or "capture").                *)
(***************************************************************************)
\* build_observation_records(text, tag)
build_observation_records(txt, tag) ==
    << [id |-> <<"obs:", ToString(now), ":", md5(txt)>>,
        text |-> txt,
        source |-> OBSERVATIONS_FILE,
        filename |-> basename(OBSERVATIONS_FILE),
        chunk_index |-> 0,
        tag |-> <<tag>>,
        vector |-> embed_single(txt)] >>

\* append_observation(text, tag): the text of the appended entry
append_observation(txt, tag) == IF ~is_safe(txt) THEN sanitize(txt) ELSE txt

\* the content of the observations log: the header "# Observations\n\n" and
\* one line "- [timestamp] **[tag]** text" per entry
ObservationsContent(log) ==
    <<"# Observations", "nl", "nl">>
    \o Flatten([k \in 1..Len(log) |-> EntryLine("t1", log[k].tag, log[k].text)])

\* the files after the observations log was written (created or appended to)
WriteLog(fs, log) ==
    [g \in DOMAIN fs \cup {OBSERVATIONS_FILE} |->
        IF g = OBSERVATIONS_FILE
        THEN [content |-> ObservationsContent(log), mtime |-> now]
        ELSE fs[g]]

\* text_hash(text)
text_hash(txt) == md5(txt)

\* a slip in the loop: the hash of a returned observation is not remembered
RECURSIVE deduplicate_observations_no_add(_, _)
deduplicate_observations_no_add(observations, seen_hashes) ==
    IF observations = <<>> THEN [new_obs |-> <<>>, seen_hashes |-> seen_hashes]
    ELSE LET obs == Head(observations)
             h == text_hash(obs.text)
             rest == deduplicate_observations_no_add(Tail(observations), seen_hashes)
         IN  IF h \notin seen_hashes
             THEN [new_obs |-> <<obs>> \o rest.new_obs, seen_hashes |-> rest.seen_hashes]
             ELSE rest

\* deduplicate_observations(observations, seen_hashes): the new observations
\* and seen_hashes as the call leaves it
RECURSIVE deduplicate_observations(_, _)
deduplicate_observations(observations, seen_hashes) ==
    IF observations = <<>> THEN [new_obs |-> <<>>, seen_hashes |-> seen_hashes]
    ELSE LET obs == Head(observations)
             h == text_hash(obs.text)
             rest == deduplicate_observations(Tail(observations), seen_hashes \cup {h})
         IN  IF h \notin seen_hashes
             THEN [new_obs |-> <<obs>> \o rest.new_obs, seen_hashes |-> rest.seen_hashes]
             ELSE rest

\* route_observations(observations, dry_run): the brain files afterwards and
\* the two lists (brain_routed, fallback)
RECURSIVE route_observations(_, _, _)
route_observations(files_before, observations, dry_run) ==
    IF observations = <<>>
    THEN [files |-> files_before, brain_routed |-> <<>>, fallback |-> <<>>]
    ELSE LET obs == Head(observations)
             r == route_observation_to_brain(files_before, obs.text, obs.tag,
                                             obs.timestamp, dry_run)
             rest == route_observations(r.files, Tail(observations), dry_run)
         IN  IF r.ret # "None"
             THEN [rest EXCEPT !.brain_routed = <<obs>> \o @]
             ELSE [rest EXCEPT !.fallback = <<obs>> \o @]

\* the entries record_observations appends for a batch
LogLines(observations) ==
    [k \in 1..Len(observations) |->
        [tag |-> observations[k].tag, text |-> observations[k].text, by |-> "capture"]]

\* the records index_observation inserts for a batch; index_failed holds the
\* positions of the observations whose index_observation call raises
IndexedRecords(observations, index_failed) ==
    Flatten([k \in 1..Len(observations) |->
                IF k \in index_failed THEN <<>>
                ELSE build_observation_records(observations[k].text, observations[k].tag)])

\* a slip in the error handling: a failure of index_observation is not
\* caught, so the loop ends at the first observation whose indexing fails
record_observations_index_raises(observations, dry_run, index_failed) ==
    IF dry_run \/ index_failed \cap (1..Len(observations)) = {}
    THEN [log |-> IF dry_run THEN obs_log ELSE obs_log \o LogLines(observations),
          store |-> IF dry_run THEN store
                    ELSE store \o IndexedRecords(observations, index_failed),
          table_exists |-> table_exists \/ (~dry_run /\ observations # <<>>),
          log_exists |-> obs_log_exists \/ observations # <<>>,
          recorded |-> Len(observations),
          raised |-> FALSE]
    ELSE LET first == CHOOSE k \in 1..Len(observations) :
                          k \in index_failed /\ \A m \in 1..(k - 1) : m \notin index_failed
         IN  [log |-> obs_log \o LogLines(SubSeq(observations, 1, first)),
              store |-> store \o IndexedRecords(SubSeq(observations, 1, first - 1), {}),
              table_exists |-> table_exists \/ first > 1,
              log_exists |-> TRUE,
              recorded |-> first - 1,
              raised |-> TRUE]

\* record_observations(observations, dry_run): the log and the store
\* afterwards, the returned count, and whether the call raised.  Each line
\* is appended before index_observation is called for it; a failure of that
\* call is swallowed by the try/except around it.  For a batch that is not
\* empty the log file is created with its header before the loop, whatever
\* dry_run is.
record_observations(observations, dry_run, index_failed) ==
    [log |-> IF dry_run THEN obs_log ELSE obs_log \o LogLines(observations),
     store |-> IF dry_run THEN store
               ELSE store \o IndexedRecords(observations, index_failed),
     table_exists |-> table_exists
                      \/ (~dry_run /\ \E k \in 1..Len(observations) : k \notin index_failed),
     log_exists |-> obs_log_exists \/ observations # <<>>,
     recorded |-> Len(observations),
     raised |-> FALSE]

(***************************************************************************)
(* search.py                                                               *)
(***************************************************************************)
DEFAULT_TOP_K == 5
DEFAULT_MIN_SCORE == 0
SUMMARY_LEN == 120

\* the dot product of two embeddings
DotProduct(u, v) ==
    LET common == SetToSeq(DOMAIN u \cap DOMAIN v)
        F[k \in 0..Len(common)] == IF k = 0 THEN 0 ELSE F[k - 1] + u[common[k]] * v[common[k]]
    IN  F[Len(common)]

\* round(1.0 - _distance, 4) under the cosine metric, as a whole number of
\* percent: the squared cosine of the two embeddings (their entries are
\* never negative, so the order of the scores is that of the cosine)
Score(u, v) ==
    IF DotProduct(u, u) = 0 \/ DotProduct(v, v) = 0 THEN 0
    ELSE (100 * DotProduct(u, v) * DotProduct(u, v)) \div (DotProduct(u, u) * DotProduct(v, v))

\* the rows of the table nearest first; rows at the same distance keep the
\* order of the table
RECURSIVE Nearest(_, _)
Nearest(rows, query_vector) ==
    IF rows = <<>> THEN <<>>
    ELSE LET best == CHOOSE i \in 1..Len(rows) :
                        \A j \in 1..Len(rows) :
                            \/ Score(query_vector, rows[i].vector)
                                   > Score(query_vector, rows[j].vector)
                            \/ /\ Score(query_vector, rows[i].vector)
                                      = Score(query_vector, rows[j].vector)
                               /\ i <= j
         IN  <<rows[best]>>
             \o Nearest(SubSeq(rows, 1, best - 1) \o SubSeq(rows, best + 1, Len(rows)),
                        query_vector)

\* s[:n]
Prefix(str, n) == SubSeq(str, 1, IF Len(str) < n THEN Len(str) ELSE n)

\* the rows a search looks at; a filter is a string, <<>> when it is not
\* given.  The tag filter is the predicate f"tag = '{tag_filter}'", the
\* source filter f"source LIKE '%{source_filter}%'".
Where(rows, source_filter, tag_filter) ==
    LET by_source == IF source_filter = <<>> THEN rows
                     ELSE SelectSeq(rows, LAMBDA r : IsSubstring(source_filter, r.source))
    IN  IF tag_filter = <<>> THEN by_source
        ELSE SelectSeq(by_source, LAMBDA r : r.tag = tag_filter)

\* the result built from a row of the table
SearchResult(r, query_vector) ==
    [id |-> r.id,
     source |-> r.source,
     content |-> r.text,
     score |-> Score(query_vector, r.vector),
     metadata |-> [filename |-> r.filename,
                   chunk_index |-> r.chunk_index,
                   tag |-> r.tag]]

\* the loop over the rows the table returned: a row under min_score is skipped
SearchResults(rows, query_vector, min_score) ==
    LET hits == SelectSeq(rows, LAMBDA r : Score(query_vector, r.vector) >= min_score)
    IN  [k \in 1..Len(hits) |-> SearchResult(hits[k], query_vector)]

\* search(query, top_k, source_filter, min_score, tag_filter)
search(query, top_k, source_filter, min_score, tag_filter) ==
    IF ~table_exists THEN <<>>
    ELSE SearchResults(Prefix(Nearest(Where(store, source_filter, tag_filter),
                                      embed_single(query)),
                              top_k),
                       embed_single(query), min_score)

\* content.split("\n", 1)[0]
FirstLine(content) ==
    LET nl == IndexOf(content, "nl", 1)
    IN  IF nl = 0 THEN content ELSE SubSeq(content, 1, nl - 1)

\* the summary entry of a result, given its summary text
IndexEntry(r, summary) ==
    [id |-> r.id,
     source |-> r.source,
     score |-> r.score,
     summary |-> summary,
     tag |-> r.metadata.tag]

\* a slip in the summary: the whole first line
search_index_whole_line(query, top_k, source_filter, min_score, tag_filter) ==
    LET results == search(query, top_k, source_filter, min_score, tag_filter)
    IN  [k \in 1..Len(results) |->
            IndexEntry(results[k], FirstLine(results[k].content))]

\* a slip in the summary: the first characters of the content, across lines
search_index_first_chars(query, top_k, source_filter, min_score, tag_filter) ==
    LET results == search(query, top_k, source_filter, min_score, tag_filter)
    IN  [k \in 1..Len(results) |->
            IndexEntry(results[k], Prefix(results[k].content, SUMMARY_LEN))]

\* search_index(query, top_k, source_filter, min_score, tag_filter)
search_index(query, top_k, source_filter, min_score, tag_filter) ==
    LET results == search(query, top_k, source_filter, min_score, tag_filter)
    IN  [k \in 1..Len(results) |->
            IndexEntry(results[k], Prefix(FirstLine(results[k].content), SUMMARY_LEN))]

\* The ways the vector store can fail under a call: "open" is a failure of
\* _get_table() (connect, table_names, open_table), "query" a failure of the
\* query on the opened table, "none" no failure.
StoreFailures == {"none", "open", "query"}

\* search has no exception handler: a failure of the store leaves it as an
\* exception.  The query is only reached when the table exists.
search_raises(fail) == fail = "open" \/ (fail = "query" /\ table_exists)

\* get_detail(chunk_id) under a store failure: [none |-> TRUE] is the return
\* value None, raised an exception that leaves the function.  _get_table()
\* is called outside the try block; the lookup, the predicate
\* f"id = '{chunk_id}'", is inside it, and every exception of the lookup
\* (the store cannot parse the predicate, or the store fails) is caught and
\* None is returned.
get_detail(chunk_id, fail) ==
    LET pred == WhereEq("id", "'", chunk_id)
        w == ParseWhere(pred)
        results == SelectSeq(store, LAMBDA r : r.id = w.value)
    IN  IF fail = "open" THEN [raised |-> TRUE]
        ELSE IF ~table_exists THEN [raised |-> FALSE, none |-> TRUE]
        ELSE IF fail = "query" THEN [raised |-> FALSE, none |-> TRUE]
        ELSE IF ~w.ok THEN [raised |-> FALSE, none |-> TRUE]
        ELSE IF results = <<>> THEN [raised |-> FALSE, none |-> TRUE]
        ELSE [raised |-> FALSE,
              none |-> FALSE,
              id |-> results[1].id,
              source |-> results[1].source,
              content |-> results[1].text,
              metadata |-> [filename |-> results[1].filename,
                            chunk_index |-> results[1].chunk_index,
                            tag |-> results[1].tag]]

(***************************************************************************)
(* The environment of the indexer: the user edits files, time passes       *)
(***************************************************************************)
MaxTime == 2
MaxFiles == 2
FileContents == { <<"x">>, <<"x", "nl", "##", "sp", "x">>, <<"sp">> }

\* the note files the user edits (the observations log is written by the
\* observation commands)
NotePaths == PathSet \ {OBSERVATIONS_FILE}

WriteFile ==
    \E f \in NotePaths, content \in FileContents :
    /\ f \in DOMAIN files \/ Cardinality(DOMAIN files) < MaxFiles
    /\ files' = [g \in DOMAIN files \cup {f} |->
                    IF g = f THEN [content |-> content, mtime |-> now] ELSE files[g]]
    /\ last_op' = [op |-> "write"]
    /\ UNCHANGED <<index_state, dbVars, now, indexFrame, index_run>>

Tick ==
    /\ now < MaxTime
    /\ now' = now + 1
    /\ last_op' = [op |-> "tick"]
    /\ UNCHANGED <<fsVars, dbVars, indexFrame, index_run>>

InitIndex ==
    /\ SanIdle
    /\ ChunkIdle
    /\ IndexIdle
    /\ BrainIdle
    /\ CaptureIdle

NextIndex == WriteFile \/ Tick \/ IndexChanged \/ IndexAll \/ IndexSingle

SpecIndex == InitIndex /\ [][NextIndex]_vars

\* the records of the store whose filename column equals fn
WithFilename(fn) == SelectSeq(store, LAMBDA r : r.filename = fn)

\* C1: after index_changed, the records whose filename is the basename of a
\* changed file are exactly the records built from the file's current content
C1_ReindexReplaces ==
    last_op.op = "index_changed" =>
        \A k \in 1..Len(last_op.changed) :
            WithFilename(basename(last_op.changed[k])) = build_records(last_op.changed[k], <<>>)

\* two lists of records with the same records, each as many times
SameRecords(rows, others) ==
    /\ Len(rows) = Len(others)
    /\ \A k \in 1..Len(rows) :
          Cardinality({m \in 1..Len(rows) : rows[m] = rows[k]})
              = Cardinality({m \in 1..Len(others) : others[m] = rows[k]})

\* C11: after index_all completes the store holds exactly the chunk records
\* of the files that match the configured patterns, also when they yield no
\* chunk, and IndexState has a fresh entry for each of those files
C11_IndexAllRebuilds ==
    last_op.op = "index_all" =>
        /\ SameRecords(store, RecordsOf(get_files_to_index))
        /\ \A f \in DOMAIN files : f \in DOMAIN index_state /\ index_state[f] = now

\* C12: after index_single completes for an existing file, the records whose
\* filename is the file's basename are exactly the chunks of its current
\* content (none when it is empty) and the file's IndexState entry is fresh
C12_IndexSingleReplaces ==
    last_op.op = "index_single" =>
        /\ SameRecords(WithFilename(basename(last_op.filepath)),
                       build_records(last_op.filepath, <<>>))
        /\ last_op.filepath \in DOMAIN index_state
        /\ index_state[last_op.filepath] = now

\* the configured file f is newer than its IndexState entry (0 when it has none)
Qualifies(f) == f \in DOMAIN files /\ files[f].mtime > last_indexed(f)

\* C13: a completed index_changed processes exactly the configured files
\* that are newer than their IndexState entry: each of them gets a fresh
\* entry, the entry of every other file is left as it was, and when no file
\* qualifies neither the store nor IndexState changes and 0 is returned
C13_IndexChangedSelects ==
    [][last_op'.op = "index_changed" =>
          /\ {last_op'.changed[k] : k \in 1..Len(last_op'.changed)}
                 = {f \in PathSet : Qualifies(f)}
          /\ \A f \in PathSet :
                IF Qualifies(f)
                THEN f \in DOMAIN index_state' /\ index_state'[f] = now
                ELSE /\ f \in DOMAIN index_state' <=> f \in DOMAIN index_state
                     /\ f \in DOMAIN index_state => index_state'[f] = index_state[f]
          /\ (\A f \in PathSet : ~Qualifies(f)) =>
                /\ UNCHANGED <<store, table_exists, index_state>>
                /\ last_op'.ret = 0]_vars

\* index_changed has processed a file and left the older entry of another
\* file alone
C13_Witness ==
    /\ last_op.op = "index_changed"
    /\ last_op.changed # <<>>
    /\ \E f \in DOMAIN files :
          /\ \A k \in 1..Len(last_op.changed) : last_op.changed[k] # f
          /\ f \in DOMAIN index_state
          /\ index_state[f] < now

\* C14: when the embedding provider fails during index_all, index_changed or
\* index_single the call raises and nothing is committed: the store, the
\* table and IndexState are as they were
C14_EmbedFailureCommitsNothing ==
    [][last_op'.op = "raise" => UNCHANGED <<store, table_exists, index_state>>]_vars

\* an indexing call has raised while the store held records of a file that
\* was due to be replaced
C14_Witness ==
    /\ last_op.op = "raise"
    /\ last_op.in \in {"index_changed", "index_single"}
    /\ table_exists
    /\ \E f \in DOMAIN files :
          /\ Qualifies(f)
          /\ WithFilename(basename(f)) # <<>>
          /\ build_records(f, <<>>) # <<>>

\* the files an indexing call re-indexed
Reindexed(op) ==
    IF op.op = "index_changed" THEN {op.changed[k] : k \in 1..Len(op.changed)}
    ELSE IF op.op = "index_single" THEN {op.filepath}
    ELSE {}

\* the records of the table that were built from files other than fs
RecordsOfOthers(rows, fs) == SelectSeq(rows, LAMBDA r : r.source \notin fs)

\* C26: re-indexing a file with index_changed or index_single leaves
\* unchanged every record of the store that was built from a different
\* file, a file with the same basename in another directory included
C26_ReindexLeavesOtherFiles ==
    [][last_op'.op \in {"index_changed", "index_single"} =>
          RecordsOfOthers(store', Reindexed(last_op')) =
              RecordsOfOthers(store, Reindexed(last_op'))]_vars

(***************************************************************************)
(* Specification of the indexer call by call, with the user editing files  *)
(* while a run is in progress                                              *)
(***************************************************************************)
\* the files of this specification: distinct file names without a double
\* quote, so that a delete removes the records of one file only
RunPaths == { <<"memory/", "a">>, <<"memory/", "b", "'">> }

InitIndexRun ==
    /\ SanIdle
    /\ ChunkIdle
    /\ IndexIdle
    /\ BrainIdle
    /\ CaptureIdle

EditFile == WriteFile /\ DOMAIN files' \subseteq RunPaths

NextIndexRun ==
    \/ EditFile
    \/ Tick
    \/ IndexChangedStart
    \/ IndexSingleStart
    \/ IndexRunBuild
    \/ IndexRunStamp
    \/ IndexRunDelete
    \/ IndexRunAdd
    \/ IndexRunSave
    \/ IndexRunStop

SpecIndexRun == InitIndexRun /\ [][NextIndexRun]_vars

\* the records of the table that were built from file f
RecordsFrom(rows, f) == SelectSeq(rows, LAMBDA r : r.source = f)

\* C29: no modification is missed for good: when an index_changed run
\* completes, every file it re-indexed either has the content the run read,
\* or is newer than the time recorded for it, so that the next index_changed
\* finds it changed
C29_NoModificationMissed ==
    [][(last_op'.op = "index_changed" /\ index_run.pc = "save") =>
          \A k \in 1..Len(index_run.changed) :
             \/ index_run.read[k] = build_records(index_run.changed[k], <<>>)
             \/ files[index_run.changed[k]].mtime > index_state'[index_run.changed[k]]]_vars

\* C30: when a run stopped after its deletes and before the insert or
\* before save_state, the next index_changed that completes re-indexes the
\* files of that run and leaves the store with exactly the records of
\* their current content
C30_StaleGapCloses ==
    [][(/\ last_op.op = "stopped"
        /\ last_op.at \in {"add", "save"}
        /\ last_op'.op = "index_changed") =>
          \A k \in 1..Len(last_op.changed) :
             /\ \E j \in 1..Len(last_op'.changed) : last_op'.changed[j] = last_op.changed[k]
             /\ RecordsFrom(store', last_op.changed[k])
                    = build_records(last_op.changed[k], <<>>)]_vars

(***************************************************************************)
(* Specification of the sanitizer as a pure function                       *)
(***************************************************************************)
MaxText == 6
SanAlphabet == {"fetch", "(", "eval", "nl", "http://"}

InitSanitize ==
    /\ text \in SeqsUpTo(SanAlphabet, MaxText)
    /\ san_pc = "input"
    /\ result = <<>>
    /\ result2 = <<>>
    /\ matches = {}
    /\ ChunkIdle
    /\ IndexIdle
    /\ BrainIdle
    /\ CaptureIdle

Check ==
    /\ san_pc = "input"
    /\ matches' = check(text)
    /\ san_pc' = "checked"
    /\ UNCHANGED <<text, result, result2, chunkVars, fsVars, dbVars, now, index_run, last_op, brainVars, captureVars>>

Sanitize ==
    /\ san_pc = "checked"
    /\ result' = sanitize(text)
    /\ san_pc' = "once"
    /\ UNCHANGED <<text, result2, matches, chunkVars, fsVars, dbVars, now, index_run, last_op, brainVars, captureVars>>

SanitizeAgain ==
    /\ san_pc = "once"
    /\ result2' = sanitize(result)
    /\ san_pc' = "twice"
    /\ UNCHANGED <<text, result, matches, chunkVars, fsVars, dbVars, now, index_run, last_op, brainVars, captureVars>>

NextSanitize == Check \/ Sanitize \/ SanitizeAgain

SpecSanitize == InitSanitize /\ [][NextSanitize]_vars

\* C5: sanitize is idempotent, sanitize(sanitize(text)) = sanitize(text)
C5_SanitizeIdempotent == san_pc = "twice" => result2 = result

(***************************************************************************)
(* Specification of the chunker as a pure function                         *)
(***************************************************************************)
MaxDoc == 6
MaxSize == 4
ChunkAlphabet == {"x", "sp", "nl", "##"}

InitChunk ==
    /\ doc \in {WithPositions(d) : d \in SeqsUpTo(ChunkAlphabet, MaxDoc)}
    /\ chunk_pc = "input"
    /\ max_size = 0
    /\ overlap = 0
    /\ chunks = <<>>
    /\ SanIdle
    /\ IndexIdle
    /\ BrainIdle
    /\ CaptureIdle

ChunkMarkdown ==
    /\ chunk_pc = "input"
    /\ \E ms \in 1..MaxSize : \E ov \in 0..(ms - 1) :
          /\ max_size' = ms
          /\ overlap' = ov
          /\ chunks' = chunk_markdown(doc, ms, ov)
    /\ chunk_pc' = "done"
    /\ UNCHANGED <<doc, sanVars, fsVars, dbVars, now, index_run, last_op, brainVars, captureVars>>

NextChunk == ChunkMarkdown

SpecChunk == InitChunk /\ [][NextChunk]_vars

\* C6: every chunk chunk_markdown returns has at most max_size characters
C6_ChunkWithinMaxSize ==
    chunk_pc = "done" => \A k \in 1..Len(chunks) : Len(chunks[k]) <= max_size

\* the positions of the document that some chunk holds
Covered == UNION {Positions(chunks[k]) : k \in 1..Len(chunks)}

\* C7 (as claimed): no character of the document is missing from the chunks
C7_NoCharacterLost ==
    chunk_pc = "done" => \A p \in 1..Len(doc) : p \in Covered

\* C7 (amended): every non-whitespace character of the document is in some
\* chunk, and each chunk holds its characters in document order; the only
\* characters missing are whitespace (stripped around sections and
\* paragraphs, or a paragraph separator between two chunks)
C7_NoContentLost ==
    chunk_pc = "done" =>
        /\ \A p \in 1..Len(doc) : ~IsSpace(doc[p]) => p \in Covered
        /\ \A k \in 1..Len(chunks) : \A i, j \in 1..Len(chunks[k]) :
              (i < j /\ chunks[k][i].p # 0 /\ chunks[k][j].p # 0)
                  => chunks[k][i].p < chunks[k][j].p

\* C7 witness: a document split by force with overlap, a character
\* duplicated in two chunks and a whitespace character dropped
C7_Witness ==
    /\ chunk_pc = "done"
    /\ overlap > 0
    /\ Len(chunks) >= 3
    /\ \E k \in 1..(Len(chunks) - 1) :
          Positions(chunks[k]) \cap Positions(chunks[k + 1]) # {}
    /\ \E p \in 1..Len(doc) : p \notin Covered

(***************************************************************************)
(* Specification of _force_split as a loop: one step per pass of its while *)
(* loop.  chunks holds parts, last_op the loop variable start.             *)
(***************************************************************************)
\* the paragraphs chunk_markdown hands to _force_split: stripped, without a
\* blank line, and too long for the buffer
Paragraphs(ms) ==
    {d \in SeqsUpTo({"x", "sp", "nl"}, MaxDoc) :
        /\ d # <<>>
        /\ StripStr(d) = d
        /\ \A i \in 1..(Len(d) - 1) : ~(d[i] = "nl" /\ d[i + 1] = "nl")
        /\ Len(d) + 2 > ms}

InitForceSplit ==
    /\ \E ms \in 1..MaxSize : \E ov \in 0..(ms - 1) :
          /\ max_size = ms
          /\ overlap = ov
          /\ doc \in {WithPositions(d) : d \in Paragraphs(ms)}
    /\ chunk_pc = "split"
    /\ chunks = <<>>
    /\ last_op = [op |-> "force_split", start |-> 0]
    /\ SanIdle
    /\ files = <<>>
    /\ index_state = <<>>
    /\ table_exists = FALSE
    /\ store = <<>>
    /\ now = 1
    /\ index_run = [pc |-> "idle"]
    /\ BrainIdle
    /\ CaptureIdle

\* a slip in the stride: the next window starts overlap characters after the
\* end of this one
next_start_skip(end, ov) == end + ov

\* start = end - overlap if overlap > 0 else end
next_start(end, ov) == IF ov > 0 THEN end - ov ELSE end

\* a pass of the loop: while start < len(text)
ForceSplitStep ==
    /\ chunk_pc = "split"
    /\ last_op.start < Len(doc)
    /\ chunks' = Append(chunks, Slice(doc, last_op.start, last_op.start + max_size))
    /\ last_op' = [last_op EXCEPT !.start = next_start(last_op.start + max_size, overlap)]
    /\ UNCHANGED <<doc, chunk_pc, max_size, overlap, sanVars, fsVars, dbVars, now, index_run,
                   brainVars, captureVars>>

\* the loop ends: return parts
ForceSplitReturn ==
    /\ chunk_pc = "split"
    /\ ~(last_op.start < Len(doc))
    /\ chunk_pc' = "done"
    /\ UNCHANGED <<doc, chunks, max_size, overlap, sanVars, fsVars, dbVars, now, index_run, last_op,
                   brainVars, captureVars>>

NextForceSplit == ForceSplitStep \/ ForceSplitReturn

\* the passes of a running loop follow one another
SpecForceSplit == InitForceSplit /\ [][NextForceSplit]_vars /\ WF_vars(NextForceSplit)

\* C24: _force_split returns; each window it emits has at least one and at
\* most max_size characters of the paragraph, in a row; window k starts
\* (k - 1) * (max_size - overlap) characters into the paragraph, a stride
\* above zero; the windows returned hold every character of the paragraph
\* and are the parts chunk_markdown gets
C24_ForceSplitTerminates ==
    /\ [](/\ max_size - overlap > 0
          /\ \A k \in 1..Len(chunks) :
                /\ Len(chunks[k]) >= 1
                /\ Len(chunks[k]) <= max_size
                /\ \A i \in 1..Len(chunks[k]) :
                      chunks[k][i] = doc[(k - 1) * (max_size - overlap) + i]
          /\ chunk_pc = "done" =>
                /\ Covered = 1..Len(doc)
                /\ chunks = force_split(doc, max_size, overlap))
    /\ <>(chunk_pc = "done")

\* a paragraph split into three windows or more that overlap
C24_Witness ==
    /\ chunk_pc = "done"
    /\ last_op.op = "force_split"
    /\ overlap > 0
    /\ Len(chunks) >= 3
    /\ Positions(chunks[1]) \cap Positions(chunks[2]) # {}

(***************************************************************************)
(* Specification of the brain router: observations are routed one by one   *)
(***************************************************************************)
MaxEntries == 2
\* observation texts as _clean_text leaves them: words joined by one space
RouteTexts == {<<"sanguo">>, <<"Sanguo">>, <<"sanguo", "sp", "png">>, <<"png">>}
RouteTags == {"decision", "learning"}
Timestamps == {"t1", "t2"}

\* the entry lines of a brain file
EntryCountAll(content) ==
    Cardinality({k \in 1..Len(content) :
                    content[k] = "-" /\ (k = 1 \/ content[k - 1] = "nl")})

InitRoute ==
    /\ SanIdle
    /\ ChunkIdle
    /\ IndexIdle
    /\ BrainIdle
    /\ CaptureIdle

Route ==
    \E txt \in RouteTexts, tag \in RouteTags, ts \in Timestamps, dry_run \in BOOLEAN :
        LET r == route_observation_to_brain(brain, txt, tag, ts, dry_run)
        IN  /\ \A f \in DOMAIN brain : EntryCountAll(brain[f]) < MaxEntries
            /\ brain' = r.files
            /\ last_op' = [op |-> "route", text |-> txt, tag |-> tag, dry_run |-> dry_run,
                           ret |-> r.ret,
                           repeat |-> /\ last_op.op = "route"
                                      /\ last_op.text = txt
                                      /\ last_op.tag = tag
                                      /\ ~last_op.dry_run
                                      /\ ~dry_run,
                           before |-> brain]
            /\ UNCHANGED <<sanVars, chunkVars, fsVars, dbVars, now, index_run, captureVars>>

NextRoute == Route

SpecRoute == InitRoute /\ [][NextRoute]_vars

\* the entries for a text in the section of a tag: the lines of the section
\* that are an entry line of the text, with any timestamp and tag
EntryCount(content, section, txt) ==
    LET lines == SectionLines(content, section)
    IN  Cardinality({k \in 1..Len(lines) :
            \E ts \in Timestamps, tag \in RouteTags :
                lines[k] \o <<"nl">> = EntryLine(ts, tag, txt)})

\* C8 (as claimed): routing the same text with the same tag twice leaves
\* exactly one entry for it in the section, and the second call leaves the
\* file unchanged
C8_RouteTwiceOneEntry ==
    (last_op.op = "route" /\ last_op.repeat /\ last_op.ret # "None") =>
        /\ brain = last_op.before
        /\ EntryCount(brain[last_op.ret], get_brain_section(last_op.tag), last_op.text) = 1

\* the section holds a line of another text that contains the normalized
\* text or is contained in it
OverlappingLine(content, section, txt) ==
    LET lines == SectionLines(content, section)
    IN  \E k \in 1..Len(lines) :
            /\ \A ts \in Timestamps, tag \in RouteTags :
                  lines[k] \o <<"nl">> # EntryLine(ts, tag, txt)
            /\ CleanLine(lines[k]) # <<>>
            /\ \/ IsSubstring(Normalize(txt), CleanLine(lines[k]))
               \/ IsSubstring(CleanLine(lines[k]), Normalize(txt))

\* C8 (amended): routing the same text with the same tag twice leaves the
\* file unchanged by the second call and at most one entry for the text in
\* the section; there is no entry only when the section holds an overlapping
\* line of another text
C8_RouteTwiceAtMostOneEntry ==
    (last_op.op = "route" /\ last_op.repeat /\ last_op.ret # "None") =>
        LET content == brain[last_op.ret]
            section == get_brain_section(last_op.tag)
            count == EntryCount(content, section, last_op.text)
        IN  /\ brain = last_op.before
            /\ count <= 1
            /\ count = 0 => OverlappingLine(content, section, last_op.text)

C8_Witness ==
    /\ last_op.op = "route"
    /\ last_op.repeat
    /\ last_op.ret # "None"
    /\ EntryCount(brain[last_op.ret], get_brain_section(last_op.tag), last_op.text) = 1

(***************************************************************************)
(* Specification of the brain integrity checker: a brain file is scanned   *)
(* and fixed in place                                                      *)
(***************************************************************************)
MaxBrainLen == 5
BrainCheckAlphabet == {"fetch", "(", "eval", "http://", "nl", "cr"}
BrainCheckPath == "memory/projects/sanguo.md"

\* open(filepath, "r", encoding="utf-8"): text mode reads "\r\n" and a lone
\* "\r" as "\n"
RECURSIVE universal_newlines(_)
universal_newlines(bytes) ==
    IF bytes = <<>> THEN <<>>
    ELSE IF Head(bytes) = "cr"
         THEN <<"nl">> \o universal_newlines(IF Len(bytes) > 1 /\ bytes[2] = "nl"
                                              THEN SubSeq(bytes, 3, Len(bytes))
                                              ELSE Tail(bytes))
         ELSE <<Head(bytes)>> \o universal_newlines(Tail(bytes))

\* f.readlines() and iteration over f: the lines, each with its "\n"
RECURSIVE readlines_from(_, _)
readlines_from(txt, cur) ==
    IF txt = <<>> THEN IF cur = <<>> THEN <<>> ELSE <<cur>>
    ELSE IF Head(txt) = "nl"
         THEN <<Append(cur, "nl")>> \o readlines_from(Tail(txt), <<>>)
         ELSE readlines_from(Tail(txt), Append(cur, Head(txt)))

readlines(bytes) == readlines_from(universal_newlines(bytes), <<>>)

\* line.rstrip("\n")
RECURSIVE rstrip_nl(_)
rstrip_nl(line) ==
    IF line # <<>> /\ line[Len(line)] = "nl"
    THEN rstrip_nl(SubSeq(line, 1, Len(line) - 1)) ELSE line

\* the loop of scan_brain_file over the lines from line k on
RECURSIVE ScanLines(_, _)
ScanLines(lines, k) ==
    IF k > Len(lines) THEN <<>>
    ELSE IF StripStr(rstrip_nl(lines[k])) = <<>> \/ is_safe(rstrip_nl(lines[k]))
         THEN ScanLines(lines, k + 1)
         ELSE <<[line_num |-> k,
                 line_text |-> StripStr(rstrip_nl(lines[k])),
                 matched_patterns |-> check(rstrip_nl(lines[k]))]>>
              \o ScanLines(lines, k + 1)

\* scan_brain_file(filepath): the findings, one per line that matches
scan_brain_file(bytes) == ScanLines(readlines(bytes), 1)

\* the loop of fix_brain_file over the lines from line k on
RECURSIVE FixLines(_, _)
FixLines(lines, k) ==
    IF k > Len(lines) THEN [new_lines |-> <<>>, lines_fixed |-> 0, patterns_removed |-> 0]
    ELSE LET rest == FixLines(lines, k + 1)
         IN  IF is_safe(lines[k])
             THEN [rest EXCEPT !.new_lines = <<lines[k]>> \o @]
             ELSE [new_lines |-> <<sanitize(lines[k])>> \o rest.new_lines,
                   lines_fixed |-> rest.lines_fixed + 1,
                   patterns_removed |-> rest.patterns_removed + Cardinality(check(lines[k]))]

\* fix_brain_file(filepath): the file as f.writelines(new_lines) leaves it,
\* and the returned counts
fix_brain_file(bytes) ==
    LET fixed == FixLines(readlines(bytes), 1)
    IN  [bytes |-> Flatten(fixed.new_lines),
         lines_fixed |-> fixed.lines_fixed,
         patterns_removed |-> fixed.patterns_removed]

InitBrainCheck ==
    /\ SanIdle
    /\ ChunkIdle
    /\ IndexIdle
    /\ brain \in {[f \in {BrainCheckPath} |-> bytes] :
                     bytes \in SeqsUpTo(BrainCheckAlphabet, MaxBrainLen)}
    /\ CaptureIdle

ScanBrainFile ==
    /\ last_op.op # "scan"
    /\ last_op' = [op |-> "scan", findings |-> scan_brain_file(brain[BrainCheckPath]),
                   fixed |-> last_op.op = "fix"]
    /\ UNCHANGED <<sanVars, chunkVars, fsVars, dbVars, now, index_run, brainVars, captureVars>>

FixBrainFile ==
    /\ last_op.op # "fix"
    /\ \E r \in {fix_brain_file(brain[BrainCheckPath])} :
          /\ brain' = [brain EXCEPT ![BrainCheckPath] = r.bytes]
          /\ last_op' = [op |-> "fix", before |-> brain[BrainCheckPath],
                         lines_fixed |-> r.lines_fixed,
                         patterns_removed |-> r.patterns_removed]
    /\ UNCHANGED <<sanVars, chunkVars, fsVars, dbVars, now, index_run, captureVars>>

NextBrainCheck == ScanBrainFile \/ FixBrainFile

SpecBrainCheck == InitBrainCheck /\ [][NextBrainCheck]_vars

\* the lines of a file as they are stored, each with the line ending it has
\* in the file ("\n", "\r\n" or "\r")
RECURSIVE stored_lines_from(_, _)
stored_lines_from(bytes, cur) ==
    IF bytes = <<>> THEN IF cur = <<>> THEN <<>> ELSE <<cur>>
    ELSE IF Head(bytes) = "cr" /\ Len(bytes) > 1 /\ bytes[2] = "nl"
         THEN <<cur \o <<"cr", "nl">>>> \o stored_lines_from(SubSeq(bytes, 3, Len(bytes)), <<>>)
    ELSE IF Head(bytes) \in {"cr", "nl"}
         THEN <<Append(cur, Head(bytes))>> \o stored_lines_from(Tail(bytes), <<>>)
         ELSE stored_lines_from(Tail(bytes), Append(cur, Head(bytes)))

StoredLines(bytes) == stored_lines_from(bytes, <<>>)

\* C25: after fix_brain_file, scan_brain_file reports no finding for the
\* file, every line that matched no injection pattern before is unchanged,
\* and a file without any match is left byte-identical with 0 lines fixed
C25_FixLeavesFileClean ==
    last_op.op = "fix" =>
        /\ scan_brain_file(brain[BrainCheckPath]) = <<>>
        /\ Len(StoredLines(brain[BrainCheckPath])) = Len(StoredLines(last_op.before))
        /\ \A k \in 1..Len(StoredLines(last_op.before)) :
              is_safe(readlines(last_op.before)[k]) =>
                  StoredLines(brain[BrainCheckPath])[k] = StoredLines(last_op.before)[k]
        /\ (\A k \in 1..Len(readlines(last_op.before)) : is_safe(readlines(last_op.before)[k])) =>
              /\ brain[BrainCheckPath] = last_op.before
              /\ last_op.lines_fixed = 0

(***************************************************************************)
(* Specification of the observation commands: manual observe and runs of   *)
(* auto-capture over the observations extracted from transcripts           *)
(***************************************************************************)
MaxObs == 2
MaxLog == 2
\* an observation that matches an injection pattern and one of a project
CaptureTexts == {<<"eval", "(">>, <<"sanguo", "sp", "png">>}
CaptureObs == [tag : {"decision"}, text : CaptureTexts, timestamp : {"t1"}]
Texts(observations) == {observations[k].text : k \in 1..Len(observations)}

InitCapture ==
    /\ SanIdle
    /\ ChunkIdle
    /\ IndexIdle
    /\ BrainIdle
    /\ CaptureIdle

\* observe.main(text, tag): append the entry, then index the observation
Observe ==
    \E txt \in CaptureTexts, tag \in {"decision"} :
        /\ Len(obs_log) < MaxLog
        /\ Len(store) < MaxLog
        /\ obs_log' = Append(obs_log, [tag |-> tag, text |-> append_observation(txt, tag),
                                       by |-> "observe"])
        /\ store' = store \o build_observation_records(txt, tag)
        /\ table_exists' = TRUE
        /\ obs_log_exists' = TRUE
        /\ files' = WriteLog(files, obs_log')
        /\ last_op' = [op |-> "observe"]
        /\ UNCHANGED <<sanVars, chunkVars, index_state, now, index_run, brainVars, capture_state, session>>

\* load_state(): the seen_hashes of the CaptureState file; none when the
\* file does not exist or json.load fails on it
load_state ==
    IF capture_state.exists /\ ~capture_state.corrupt THEN capture_state.seen_hashes ELSE {}

\* the lists of observations a run can scan from the transcripts
ObsSeqs == SeqsUpTo(CaptureObs, MaxObs)

\* auto_capture.main over the observations all_obs scanned from the
\* transcripts.  stop_after = -1: the run completes; stop_after = n: the run
\* ends (an uncaught exception of a file operation, an interrupt) when n of
\* its observations are recorded, before save_state.  save_cut: the run ends
\* inside save_state, after open(STATE_FILE, "w") emptied the file and before
\* json.dump wrote it out.  With --route-to-brain
\* the observations are routed and the fallback list is recorded; without it
\* every new observation is recorded.
AutoCapture ==
    \E all_obs \in ObsSeqs, dry_run \in BOOLEAN, route_to_brain \in BOOLEAN :
    \E d \in {deduplicate_observations(all_obs, load_state)}, save_cut \in BOOLEAN :
    \E routed \in {IF route_to_brain /\ d.new_obs # <<>>
                   THEN route_observations(brain, d.new_obs, dry_run)
                   ELSE [files |-> brain, brain_routed |-> <<>>, fallback |-> d.new_obs]} :
    \E stop_after \in {-1} \cup 1..Len(routed.fallback) :
    \E batch \in {SubSeq(routed.fallback, 1,
                         IF stop_after = -1 THEN Len(routed.fallback) ELSE stop_after)} :
    \E index_failed \in SUBSET (1..Len(batch)) :
    \E rec \in {record_observations(batch, dry_run, index_failed)} :
    \E saving \in {d.new_obs # <<>> /\ ~dry_run /\ stop_after = -1 /\ ~rec.raised} :
    \E saved \in {saving /\ ~save_cut} :
        /\ dry_run => (stop_after = -1 /\ index_failed = {})
        /\ save_cut => saving
        /\ Len(rec.log) <= MaxLog
        /\ Len(rec.store) <= MaxLog
        /\ brain' = routed.files
        /\ obs_log' = rec.log
        /\ obs_log_exists' = rec.log_exists
        /\ files' = IF rec.log = obs_log /\ rec.log_exists = obs_log_exists
                     THEN files ELSE WriteLog(files, rec.log)
        /\ store' = rec.store
        /\ table_exists' = rec.table_exists
        /\ capture_state' =
              IF saved THEN [exists |-> TRUE, corrupt |-> FALSE, seen_hashes |-> d.seen_hashes]
              ELSE IF save_cut THEN [exists |-> TRUE, corrupt |-> TRUE, seen_hashes |-> {}]
              ELSE capture_state
        /\ last_op' = [op |-> "capture",
                       found |-> Len(d.new_obs),
                       dry_run |-> dry_run,
                       completed |-> stop_after = -1 /\ ~rec.raised /\ ~save_cut,
                       raised |-> rec.raised,
                       brain_routed |-> routed.brain_routed,
                       batch |-> batch,
                       index_failed |-> index_failed,
                       recorded |-> rec.recorded,
                       saved_texts |-> IF saved THEN Texts(all_obs) ELSE {},
                       repeat |-> /\ last_op.op = "capture"
                                  /\ all_obs # <<>>
                                  /\ Texts(all_obs) \subseteq last_op.saved_texts]
        /\ UNCHANGED <<sanVars, chunkVars, index_state, now, index_run, session>>

NextCapture == Observe \/ AutoCapture

SpecCapture == InitCapture /\ [][NextCapture]_vars

\* the texts the store holds for observations
ObservationRecords == SelectSeq(store, LAMBDA r : r.filename = <<"observations.md">>)

\* C2: the text appended to the observation log, inserted into a brain file
\* or inserted into the vector store for an observation matches no injection
\* pattern
C2_SanitizerGatesWrites ==
    /\ \A k \in 1..Len(obs_log) : is_safe(obs_log[k].text)
    /\ \A f \in DOMAIN brain : is_safe(brain[f])
    /\ \A k \in 1..Len(ObservationRecords) : is_safe(ObservationRecords[k].text)

\* C3: no text is appended to the observation log by auto-capture twice
C3_RecordedAtMostOnce ==
    \A i, j \in 1..Len(obs_log) :
        (i < j /\ obs_log[i].by = "capture" /\ obs_log[j].by = "capture") =>
            obs_log[i].text # obs_log[j].text

\* what deduplicate_observations returns for a scanned list, from the
\* persisted CaptureState: no observation whose hash is in seen_hashes, and
\* one observation for each text hash that is not (texts are told apart by
\* text_hash)
DedupReturnsEachNewOnce(all_obs) ==
    LET seen_hashes == load_state
        new_obs == deduplicate_observations(all_obs, seen_hashes).new_obs
    IN  /\ \A k \in 1..Len(new_obs) : text_hash(new_obs[k].text) \notin seen_hashes
        /\ \A k \in 1..Len(all_obs) :
              text_hash(all_obs[k].text) \notin seen_hashes =>
                  Cardinality({m \in 1..Len(new_obs) :
                      text_hash(new_obs[m].text) = text_hash(all_obs[k].text)}) = 1
        /\ Texts(new_obs) \subseteq Texts(all_obs)

\* C4: a run that follows a completed non-dry run which persisted
\* CaptureState, over observation texts that run scanned too, finds zero new
\* observations; deduplicate_observations returns no observation whose hash
\* is already in seen_hashes and returns each new one once
C4_SecondRunFindsNothing ==
    /\ (last_op.op = "capture" /\ last_op.repeat) => last_op.found = 0
    /\ \A all_obs \in ObsSeqs : DedupReturnsEachNewOnce(all_obs)

C4_Witness ==
    /\ last_op.op = "capture"
    /\ last_op.repeat
    /\ last_op.found = 0

\* the store has a record with the text and the tag of the observation
Indexed(obs) ==
    \E m \in 1..Len(store) : store[m].text = obs.text /\ store[m].tag = <<obs.tag>>

\* C17: every observation a completed non-dry auto-capture run records,
\* routed to a brain file or appended to the log, is in the vector store as a
\* record with its tag, when no index_observation call fails
C17_RecordedIsIndexed ==
    (/\ last_op.op = "capture"
     /\ ~last_op.dry_run
     /\ last_op.completed
     /\ last_op.index_failed = {}) =>
        /\ \A k \in 1..Len(last_op.batch) : Indexed(last_op.batch[k])
        /\ \A k \in 1..Len(last_op.brain_routed) : Indexed(last_op.brain_routed[k])

\* C23: no step drops a hash from the persisted CaptureState: the
\* seen_hashes a later run loads hold every hash that could be loaded before
C23_SeenHashesGrow ==
    [][load_state \subseteq load_state']_vars

\* C21: a dry run of auto-capture leaves every brain file, the observation
\* log (its lines and its existence), the vector store and the CaptureState
\* file as they were; and in every state a dry run of route_observations and
\* of record_observations writes nothing and returns the two lists and the
\* count that the real run returns
C21_DryRunWritesNothing ==
    [][/\ (last_op'.op = "capture" /\ last_op'.dry_run) =>
              UNCHANGED <<brain, obs_log, obs_log_exists, store, table_exists, capture_state>>
       /\ \A batch \in ObsSeqs :
              /\ route_observations(brain, batch, TRUE).files = brain
              /\ route_observations(brain, batch, TRUE).brain_routed
                    = route_observations(brain, batch, FALSE).brain_routed
              /\ route_observations(brain, batch, TRUE).fallback
                    = route_observations(brain, batch, FALSE).fallback
              /\ record_observations(batch, TRUE, {}).log = obs_log
              /\ record_observations(batch, TRUE, {}).store = store
              /\ record_observations(batch, TRUE, {}).table_exists = table_exists
              /\ record_observations(batch, TRUE, {}).log_exists = obs_log_exists
              /\ record_observations(batch, TRUE, {}).recorded
                    = record_observations(batch, FALSE, {}).recorded]_vars

\* C20: a non-dry run of record_observations appends the line of every
\* observation of the batch, in order, whichever index_observation calls
\* fail; it does not raise and counts every observation as recorded; a record
\* is inserted only for an observation whose line is appended
C20_IndexFailureIgnored ==
    [][(last_op'.op = "capture" /\ ~last_op'.dry_run) =>
          /\ ~last_op'.raised
          /\ obs_log' = obs_log \o LogLines(last_op'.batch)
          /\ last_op'.recorded = Len(last_op'.batch)
          /\ Len(store') <= Len(store) + Len(last_op'.batch)
          /\ \A m \in (Len(store) + 1)..Len(store') :
                \E k \in 1..Len(last_op'.batch) :
                    /\ k \notin last_op'.index_failed
                    /\ store'[m].text = obs_log'[Len(obs_log) + k].text]_vars

\* a batch of two observations is recorded although the indexing of the
\* first one failed
C20_Witness ==
    /\ last_op.op = "capture"
    /\ ~last_op.dry_run
    /\ last_op.completed
    /\ Len(last_op.batch) = 2
    /\ 1 \in last_op.index_failed
    /\ last_op.recorded = 2
    /\ \E k \in 1..Len(obs_log) : obs_log[k].text = last_op.batch[2].text

(***************************************************************************)
(* auto_capture.py: extraction of observations from session transcripts.   *)
(* Here a text is a sequence of single characters ("sp" the space, "nl"    *)
(* the newline), so the lengths the code compares are lengths of the       *)
(* model's sequences.                                                      *)
(***************************************************************************)
\* len(line) < 10: a shorter line is skipped
MIN_LINE_LEN == 10
\* len(captured) < 8: a shorter capture is passed over
MIN_CAPTURE_LEN == 8
\* len(captured) > 300: a longer capture is cut to 297 characters and "..."
MAX_CAPTURE_LEN == 300
TRUNCATED_LEN == 297
\* the characters of the capture in the key of a block and of a session
BLOCK_KEY_LEN == 30
SESSION_KEY_LEN == 40

\* the keywords of four rules
DecisionKw == <<"D", "e", "c", "i", "s", "i", "o", "n", ":">>
DoneKw == <<"D", "O", "N", "E">>
TodoKw == <<"T", "O", "D", "O">>
NextKw == <<"N", "e", "x", "t", ":">>

\* The rules of _RAW_PATTERNS that a text over the letters of their keywords,
\* "x", "-" and white space can match, in declaration order: every other rule
\* needs a character these texts do not have.
\*   kind "prefix": kw, ":?" when colon, \s* (ws_min 0) or \s+ (ws_min 1),
\*                  then the group (.{min,max})
\*   kind "infix":  the group (.{before,}kw.{after,})
PATTERNS == <<
    [tag |-> "decision", kind |-> "prefix",                \* Decision:\s*(.{10,300})
     kw |-> DecisionKw, colon |-> FALSE, ws_min |-> 0, min |-> 10, max |-> 300],
    [tag |-> "learning", kind |-> "infix",                 \* (.{10,}DONE.{3,})
     kw |-> DoneKw, before |-> 10, after |-> 3],
    [tag |-> "insight", kind |-> "prefix",                 \* TODO:?\s+(.{5,300})
     kw |-> TodoKw, colon |-> TRUE, ws_min |-> 1, min |-> 5, max |-> 300],
    [tag |-> "next", kind |-> "prefix",                    \* Next:\s*(.{10,300})
     kw |-> NextKw, colon |-> FALSE, ws_min |-> 0, min |-> 10, max |-> 300] >>

\* line[i:].startswith(kw), i counted from 1
StartsAt(line, kw, i) ==
    /\ i + Len(kw) - 1 <= Len(line)
    /\ SubSeq(line, i, i + Len(kw) - 1) = kw

\* the number of white-space characters of line from position j on
SpaceRun(line, j) ==
    Least({k \in j..(Len(line) + 1) : k > Len(line) \/ line[k] \notin {"sp", "nl"}}) - j

\* the position after the keyword at i and, for ":?", after a colon that
\* follows it
AfterKeyword(rule, line, i) ==
    IF rule.colon /\ i + Len(rule.kw) <= Len(line) /\ line[i + Len(rule.kw)] = ":"
    THEN i + Len(rule.kw) + 1
    ELSE i + Len(rule.kw)

\* the white space \s* or \s+ takes from position j: all of it, unless the
\* group then has fewer than min characters left; then the matcher gives
\* back just as much as the group needs
Skipped(rule, line, j) ==
    IF SpaceRun(line, j) <= Len(line) - j + 1 - rule.min
    THEN SpaceRun(line, j)
    ELSE Len(line) - j + 1 - rule.min

\* a prefix rule matches with its keyword at i
MatchesAt(rule, line, i) ==
    /\ StartsAt(line, rule.kw, i)
    /\ Skipped(rule, line, AfterKeyword(rule, line, i)) >= rule.ws_min

\* the group of a prefix rule whose white space starts at j: greedy, at most
\* max characters
GroupAt(rule, line, j) ==
    Prefix(SubSeq(line, j + Skipped(rule, line, j), Len(line)), rule.max)

\* pattern.search(line): m.group(1) of the leftmost match, <<>> when the
\* pattern does not match (a group is never empty).  An infix rule that
\* matches at all matches from the first character to the last.
group1(rule, line) ==
    IF rule.kind = "infix"
    THEN IF \E p \in (rule.before + 1)..Len(line) :
                /\ StartsAt(line, rule.kw, p)
                /\ Len(line) - (p + Len(rule.kw) - 1) >= rule.after
         THEN line
         ELSE <<>>
    ELSE IF \E i \in 1..Len(line) : MatchesAt(rule, line, i)
         THEN GroupAt(rule, line,
                      AfterKeyword(rule, line,
                                   Least({i \in 1..Len(line) : MatchesAt(rule, line, i)})))
         ELSE <<>>

\* _SKIP_LINE_RE.search(line) on a stripped line: the line starts with one of
\* the characters of the first alternative; the other alternatives need
\* characters the texts do not have
SKIP_LINE_RE(line) == line # <<>> /\ line[1] \in {"{", "[", "backtick", "-", "*", "#", ">"}

\* text.split('\n')
split_lines(str) ==
    LET nls == SelectSeq([k \in 1..Len(str) |-> k], LAMBDA k : str[k] = "nl")
    IN  [j \in 1..(Len(nls) + 1) |->
            SubSeq(str,
                   IF j = 1 THEN 1 ELSE nls[j - 1] + 1,
                   IF j > Len(nls) THEN Len(str) ELSE nls[j] - 1)]

\* _clean_text(text): re.sub(r'\s+', ' ', text.strip())
clean_text(str) ==
    LET s == StripStr(str)
        kept == SelectSeq([k \in 1..Len(s) |-> k],
                          LAMBDA k : s[k] \notin {"sp", "nl"} \/ s[k - 1] \notin {"sp", "nl"})
    IN  [j \in 1..Len(kept) |-> IF s[kept[j]] \in {"sp", "nl"} THEN "sp" ELSE s[kept[j]]]

\* the cap on the length of a capture: captured[:297] + "..."
Capped(captured) ==
    IF Len(captured) > MAX_CAPTURE_LEN
    THEN SubSeq(captured, 1, TRUNCATED_LEN) \o <<".", ".", ".">>
    ELSE captured

\* the text of the observation a rule makes of a line it matches
Captured(rule, line) == Capped(clean_text(group1(rule, line)))

\* dedup_key = f"{tag}:{captured[:30]}"
dedup_key(tag, captured) == <<tag, ":">> \o Prefix(captured, BLOCK_KEY_LEN)

\* the loop over PATTERNS for a line, from rule r on: the number of the rule
\* that appends an observation, 0 when none does.  A rule that does not
\* match, whose capture is too short, or whose key the block has seen is
\* passed over (continue) and the next rule is tried.
RECURSIVE TryRules(_, _, _)
TryRules(line, r, seen_in_block) ==
    IF r > Len(PATTERNS) THEN 0
    ELSE LET m == group1(PATTERNS[r], line)
             captured == clean_text(m)
         IN  IF m = <<>>
                 THEN TryRules(line, r + 1, seen_in_block)
             ELSE IF Len(captured) < MIN_CAPTURE_LEN
                 THEN TryRules(line, r + 1, seen_in_block)
             ELSE IF dedup_key(PATTERNS[r].tag, Capped(captured)) \in seen_in_block
                 THEN TryRules(line, r + 1, seen_in_block)
             ELSE r

\* the loop over the lines of a block, from line k on.  An observation is
\* kept here with the number of its line and of the rule that appended it.
RECURSIVE LineLoop(_, _, _, _)
LineLoop(lines, k, seen_in_block, observations) ==
    IF k > Len(lines) THEN observations
    ELSE LET line == StripStr(lines[k])
             r == IF Len(line) < MIN_LINE_LEN \/ SKIP_LINE_RE(line) THEN 0
                  ELSE TryRules(line, 1, seen_in_block)
             captured == Captured(PATTERNS[r], line)
         IN  IF r = 0 THEN LineLoop(lines, k + 1, seen_in_block, observations)
             ELSE LineLoop(lines, k + 1,
                           seen_in_block \cup {dedup_key(PATTERNS[r].tag, captured)},
                           Append(observations,
                                  [tag |-> PATTERNS[r].tag,
                                   text |-> captured,
                                   line |-> k,
                                   rule |-> r]))

\* extract_observations_from_text(text)
extract_observations_from_text(txt) ==
    LET found == LineLoop(split_lines(txt), 1, {}, <<>>)
    IN  [k \in 1..Len(found) |-> [tag |-> found[k].tag, text |-> found[k].text]]

\* sess_key = f"{obs['tag']}:{obs['text'][:40]}"
sess_key(obs) == <<obs.tag, ":">> \o Prefix(obs.text, SESSION_KEY_LEN)

\* a slip in the per-session check: every extracted observation is kept
NewInSession_all(extracted, session_seen) == extracted

\* the observations of a message the session keeps: those whose key neither
\* the session has seen nor an earlier observation of the message has
NewInSession(extracted, session_seen) ==
    LET kept == SelectSeq([j \in 1..Len(extracted) |-> j],
                    LAMBDA j : /\ sess_key(extracted[j]) \notin session_seen
                               /\ \A i \in 1..(j - 1) :
                                     sess_key(extracted[i]) # sess_key(extracted[j]))
    IN  [j \in 1..Len(kept) |-> extracted[kept[j]]]

\* full_text of a message: every content item and a newline
full_text(content) == Flatten([k \in 1..Len(content) |-> content[k] \o <<"nl">>])

\* The lines of a session file.  shape tells what json.loads and the lookups
\* make of a line:
\*   "invalid_json"        json.loads raises JSONDecodeError
\*   "not_object"          valid JSON that is no object (a list, a number)
\*   "other_type"          an object whose type is not "message"
\*   "message_not_object"  type "message", but message is no object
\*   "message"             type "message" with message.role and
\*                         message.content, a list of text items
\* The loop over the lines from line k on.  JSONDecodeError is caught in the
\* loop and the line is skipped; entry.get on a value that is no object, and
\* msg.get on a message that is no object, raise AttributeError, which the
\* handler around the loop catches: the scan ends with what it has.  The
\* source_file and timestamp the scan adds to an observation are left out.
RECURSIVE ScanLoop(_, _, _, _)
ScanLoop(lines, k, session_seen, observations) ==
    IF k > Len(lines) THEN observations
    ELSE IF lines[k].shape = "invalid_json"
         THEN ScanLoop(lines, k + 1, session_seen, observations)
    ELSE IF lines[k].shape \in {"not_object", "message_not_object"}
         THEN observations
    ELSE IF lines[k].shape = "other_type"
         THEN ScanLoop(lines, k + 1, session_seen, observations)
    ELSE IF lines[k].role \notin {"user", "assistant"}
         THEN ScanLoop(lines, k + 1, session_seen, observations)
    ELSE IF StripStr(full_text(lines[k].content)) = <<>>
         THEN ScanLoop(lines, k + 1, session_seen, observations)
    ELSE LET extracted == extract_observations_from_text(full_text(lines[k].content))
         IN  ScanLoop(lines, k + 1,
                      session_seen \cup {sess_key(extracted[j]) : j \in 1..Len(extracted)},
                      observations \o NewInSession(extracted, session_seen))

\* scan_session_file(filepath), on the lines of the file
scan_session_file(lines) == ScanLoop(lines, 1, {}, <<>>)

(***************************************************************************)
(* Specification of observations under incremental indexing: observations *)
(* are recorded while the indexer runs over the files, the observations    *)
(* log among them                                                          *)
(***************************************************************************)
InitObserveIndex ==
    /\ SanIdle
    /\ ChunkIdle
    /\ IndexIdle
    /\ BrainIdle
    /\ CaptureIdle

NextObserveIndex == Observe \/ Tick \/ IndexChanged \/ IndexSingle \/ IndexAll

SpecObserveIndex == InitObserveIndex /\ [][NextObserveIndex]_vars

\* the records index_observation inserted: their id starts with "obs:"
InsertedObservations(rows) == {rows[k] : k \in {j \in 1..Len(rows) : rows[j].id[1] = "obs:"}}

\* C27: a record inserted by index_observation stays in the store, with its
\* tag, across every index_changed and index_single run; only index_all
\* removes it
C27_ObservationRecordsStay ==
    [][last_op'.op # "index_all" =>
          InsertedObservations(store) \subseteq InsertedObservations(store')]_vars

\* C28: record ids are unique in every reachable state of the store,
\* whatever index_all, index_changed, index_single and index_observation
\* calls were made
C28_IdsUnique ==
    \A i, j \in 1..Len(store) : i # j => store[i].id # store[j].id

(***************************************************************************)
(* Specification of the extraction as a pure function of a text block      *)
(***************************************************************************)
MaxLines == 2
Xs(n) == [k \in 1..n |-> "x"]
\* the lines of a block: a plain decision; a decision that also holds DONE; a
\* next step that also holds a TODO with a short text; a list item; a line
\* under the minimum length; a decision whose text is mostly white space; a
\* line no rule matches; a TODO without colon in an indented line; a DONE
\* with just enough text around it; a DONE too close to the end of the line
ExtractLines == {
    DecisionKw \o <<"sp">> \o Xs(12),
    DecisionKw \o <<"sp">> \o Xs(3) \o <<"sp">> \o DoneKw \o <<"sp">> \o Xs(4),
    NextKw \o <<"sp">> \o Xs(10) \o <<"sp">> \o TodoKw \o <<":", "sp">> \o Xs(5),
    <<"-", "sp">> \o DecisionKw \o <<"sp">> \o Xs(12),
    TodoKw \o <<":", "sp">> \o Xs(2),
    DecisionKw \o <<"x">> \o [k \in 1..9 |-> "sp"] \o <<"x">>,
    Xs(12),
    <<"sp", "sp">> \o TodoKw \o <<"sp">> \o Xs(8),
    Xs(10) \o DoneKw \o Xs(3),
    Xs(10) \o DoneKw \o Xs(2) }
\* blocks of one line: a decision whose text is longer than its group takes,
\* and a DONE line over the maximum length of a capture
LongBlocks == {<<DecisionKw \o <<"sp">> \o Xs(MAX_CAPTURE_LEN + 1)>>,
               <<Xs(MAX_CAPTURE_LEN) \o DoneKw \o Xs(3)>>}

\* "\n".join(lines)
Join(lines) ==
    Flatten([k \in 1..Len(lines) |-> IF k = 1 THEN lines[k] ELSE <<"nl">> \o lines[k]])

InitExtract ==
    /\ SanIdle
    /\ ChunkIdle
    /\ IndexIdle
    /\ BrainIdle
    /\ CaptureIdle

\* extract_observations_from_text(text) on a block of one or more lines;
\* found is the list it returns, each observation with its line and rule
ExtractObservations ==
    \E lines \in (SeqsUpTo(ExtractLines, MaxLines) \ {<<>>}) \cup LongBlocks :
        /\ last_op' = [op |-> "extract",
                       text |-> Join(lines),
                       found |-> LineLoop(split_lines(Join(lines)), 1, {}, <<>>),
                       ret |-> extract_observations_from_text(Join(lines))]
        /\ UNCHANGED <<sanVars, chunkVars, fsVars, dbVars, now, index_run, brainVars, captureVars>>

NextExtract == ExtractObservations

SpecExtract == InitExtract /\ [][NextExtract]_vars

\* the rules whose pattern matches a line
Matching(line) == {r \in 1..Len(PATTERNS) : group1(PATTERNS[r], line) # <<>>}

\* C15: an observation extracted from a line carries the tag and the capture
\* of the first rule, in declaration order, whose pattern matches the line,
\* and a line yields at most one observation
C15_FirstMatchingRuleDecides ==
    last_op.op = "extract" =>
        /\ \A k \in 1..Len(last_op.found) :
              LET line == StripStr(split_lines(last_op.text)[last_op.found[k].line])
                  first == Least(Matching(line))
              IN  /\ last_op.found[k].rule = first
                  /\ last_op.found[k].tag = PATTERNS[first].tag
                  /\ last_op.found[k].text = Captured(PATTERNS[first], line)
        /\ \A k, m \in 1..Len(last_op.found) :
              last_op.found[k].line = last_op.found[m].line => k = m

(***************************************************************************)
(* Specification of the scan of a session file that grows by entries       *)
(***************************************************************************)
MaxSession == 3
\* two decisions that agree in their first 40 characters, and a block of two
\* lines
LongDecision(c) == DecisionKw \o <<"sp">> \o Xs(SESSION_KEY_LEN) \o <<c>>
Message(role, content) == [shape |-> "message", role |-> role, content |-> content]
Other(shape) == [shape |-> shape, role |-> "", content |-> <<>>]
SessionEntries == {
    Other("invalid_json"), Other("not_object"), Other("other_type"),
    Other("message_not_object"),
    Message("user", <<LongDecision("e")>>),
    Message("assistant", <<LongDecision("o")>>),
    Message("tool", <<NextKw \o <<"sp">> \o Xs(10)>>),
    Message("assistant", <<TodoKw \o <<":", "sp">> \o Xs(8), <<"sp">>>>) }

InitScan ==
    /\ SanIdle
    /\ ChunkIdle
    /\ IndexIdle
    /\ BrainIdle
    /\ CaptureIdle

\* the agent runtime appends a line to the session file
AppendEntry ==
    \E entry \in SessionEntries :
        /\ Len(session) < MaxSession
        /\ session' = Append(session, entry)
        /\ last_op' = [op |-> "append"]
        /\ UNCHANGED <<sanVars, chunkVars, fsVars, dbVars, now, index_run, brainVars,
                       obs_log, capture_state, obs_log_exists>>

\* scan_session_file(filepath)
ScanSessionFile ==
    /\ last_op' = [op |-> "scan", ret |-> scan_session_file(session)]
    /\ UNCHANGED <<sanVars, chunkVars, fsVars, dbVars, now, index_run, brainVars, captureVars>>

NextScan == AppendEntry \/ ScanSessionFile

SpecScan == InitScan /\ [][NextScan]_vars

\* the observations extractable from the well-formed user and assistant
\* messages of the session file, in transcript order
RECURSIVE Extractable(_)
Extractable(lines) ==
    IF lines = <<>> THEN <<>>
    ELSE (IF Head(lines).shape = "message" /\ Head(lines).role \in {"user", "assistant"}
          THEN extract_observations_from_text(full_text(Head(lines).content))
          ELSE <<>>)
         \o Extractable(Tail(lines))

\* C16: no two observations scan_session_file returns have the same tag and
\* first 40 characters, and each of them is the first observation of the
\* transcript with its key
C16_OnePerSessionKey ==
    last_op.op = "scan" =>
        /\ \A k, m \in 1..Len(last_op.ret) :
              sess_key(last_op.ret[k]) = sess_key(last_op.ret[m]) => k = m
        /\ \A k \in 1..Len(last_op.ret) :
              \E i \in 1..Len(Extractable(session)) :
                  /\ Extractable(session)[i] = last_op.ret[k]
                  /\ \A j \in 1..(i - 1) :
                        sess_key(Extractable(session)[j]) # sess_key(last_op.ret[k])

\* two messages of the session state decisions with the same key and
\* different texts, and the scan returned the first
C16_Witness ==
    /\ last_op.op = "scan"
    /\ \E i, j \in 1..Len(Extractable(session)) :
          /\ i < j
          /\ sess_key(Extractable(session)[i]) = sess_key(Extractable(session)[j])
          /\ Extractable(session)[i] # Extractable(session)[j]
          /\ \E k \in 1..Len(last_op.ret) : last_op.ret[k] = Extractable(session)[i]

\* C19: whatever lines of the session file are no well-formed message, the
\* scan returns an observation for every key of the observations extractable
\* from its well-formed user and assistant messages
C19_BadLinesAreSkipped ==
    last_op.op = "scan" =>
        \A i \in 1..Len(Extractable(session)) :
            \E k \in 1..Len(last_op.ret) :
                sess_key(last_op.ret[k]) = sess_key(Extractable(session)[i])

(***************************************************************************)
(* Specification of the two-phase search over an indexed workspace         *)
(***************************************************************************)
MaxOver == 1
MaxTopK == 2
\* a line longer than a summary
LongLine == [k \in 1..(SUMMARY_LEN + MaxOver) |-> "x"]
SearchContents == {<<"x", "nl", "x", "sp", "sanguo">>, LongLine \o <<"nl", "sanguo">>}
SearchPaths == {<<"memory/", "a">>, <<"memory/", "b", "'">>}
Queries == {<<"x">>, <<"sanguo">>}
\* the ids a caller can ask for: those of the store and one that is unknown
AskedIds == {store[k].id : k \in 1..Len(store)} \cup {<<"a", ":", "0", ":", "0">>}

InitSearch ==
    /\ SanIdle
    /\ ChunkIdle
    /\ IndexIdle
    /\ BrainIdle
    /\ CaptureIdle

\* the user writes a note
WriteNote ==
    \E f \in SearchPaths, content \in SearchContents :
        /\ files' = [g \in DOMAIN files \cup {f} |->
                        IF g = f THEN [content |-> content, mtime |-> now] ELSE files[g]]
        /\ last_op' = [op |-> "write"]
        /\ UNCHANGED <<index_state, dbVars, now, indexFrame, index_run>>

SearchIndex ==
    \E query \in Queries, top_k \in 1..MaxTopK, min_score \in {DEFAULT_MIN_SCORE, 50},
       source_filter \in {<<>>, <<"memory/">>}, tag_filter \in {<<>>, <<"decision">>},
       fail \in StoreFailures :
        /\ source_filter = <<>> \/ tag_filter = <<>>
        /\ last_op' = [op |-> "search_index",
                       fail |-> fail,
                       raised |-> search_raises(fail),
                       results |-> IF search_raises(fail) THEN <<>>
                                   ELSE search_index(query, top_k, source_filter,
                                                     min_score, tag_filter)]
        /\ UNCHANGED <<sanVars, chunkVars, fsVars, dbVars, now, index_run, brainVars, captureVars>>

GetDetail ==
    \E chunk_id \in AskedIds, fail \in StoreFailures :
        /\ last_op' = [op |-> "get_detail", chunk_id |-> chunk_id,
                       fail |-> fail,
                       ret |-> get_detail(chunk_id, fail)]
        /\ UNCHANGED <<sanVars, chunkVars, fsVars, dbVars, now, index_run, brainVars, captureVars>>

NextSearch == WriteNote \/ IndexAll \/ SearchIndex \/ GetDetail

SpecSearch == InitSearch /\ [][NextSearch]_vars

\* C9: a result of search_index has exactly the fields id, source, score,
\* summary and tag, and its summary has at most 120 characters
C9_IndexResultsAreSummaries ==
    last_op.op = "search_index" /\ ~last_op.raised =>
        \A k \in 1..Len(last_op.results) :
            /\ DOMAIN last_op.results[k] = {"id", "source", "score", "summary", "tag"}
            /\ Len(last_op.results[k].summary) <= SUMMARY_LEN

\* a result for a record whose first line is longer than a summary
C9_Witness ==
    /\ last_op.op = "search_index"
    /\ \E k \in 1..Len(last_op.results) :
          /\ Len(last_op.results[k].summary) = SUMMARY_LEN
          /\ \E m \in 1..Len(store) :
                /\ store[m].id = last_op.results[k].id
                /\ Len(FirstLine(store[m].text)) > SUMMARY_LEN

\* the records of the store with an id
WithId(chunk_id) == SelectSeq(store, LAMBDA r : r.id = chunk_id)

\* C10: when the store does not fail, get_detail returns the full content of
\* a record with the id when the store has one, and None when it has none or
\* the table does not exist
C10_DetailOfEveryStoredId ==
    last_op.op = "get_detail" /\ last_op.fail = "none" =>
        IF table_exists /\ WithId(last_op.chunk_id) # <<>>
        THEN /\ ~last_op.ret.none
             /\ \E k \in 1..Len(WithId(last_op.chunk_id)) :
                   last_op.ret.content = WithId(last_op.chunk_id)[k].text
        ELSE last_op.ret.none

\* C22 (as claimed): the summary of every result of search_index is the
\* first 120 characters of the content of the record with its id, the whole
\* content when that is shorter
C22_SummaryIsFirstChars ==
    (last_op.op = "search_index" /\ ~last_op.raised) =>
        \A k \in 1..Len(last_op.results) :
            \E m \in 1..Len(store) :
                /\ store[m].id = last_op.results[k].id
                /\ last_op.results[k].summary = Prefix(store[m].text, SUMMARY_LEN)

\* C22 (amended): the summary of every result of search_index is the first
\* line of the content of the record with its id, the text before its first
\* newline, cut to 120 characters
C22_SummaryIsFirstLine ==
    (last_op.op = "search_index" /\ ~last_op.raised) =>
        \A k \in 1..Len(last_op.results) :
            \E m \in 1..Len(store) :
                /\ store[m].id = last_op.results[k].id
                /\ last_op.results[k].summary
                      = Prefix(FirstLine(store[m].text), SUMMARY_LEN)

\* a result for a record whose first line ends before its 120th character
\* and whose content goes on after it
C22_Witness ==
    /\ last_op.op = "search_index"
    /\ ~last_op.raised
    /\ \E k \in 1..Len(last_op.results), m \in 1..Len(store) :
          /\ store[m].id = last_op.results[k].id
          /\ Len(FirstLine(store[m].text)) < SUMMARY_LEN
          /\ Len(FirstLine(store[m].text)) < Len(store[m].text)
          /\ last_op.results[k].summary = FirstLine(store[m].text)

\* the store failed under the last call: the call reached the failing step
StoreFailed ==
    /\ last_op.op \in {"search_index", "get_detail"}
    /\ \/ last_op.fail = "open"
       \/ last_op.fail = "query" /\ table_exists

\* C18: a failure of the vector store during search, search_index or
\* get_detail leaves the call as an exception; get_detail does not answer a
\* store failure with the value it returns for an id that is not found
C18_StoreFailurePropagates ==
    StoreFailed =>
        IF last_op.op = "get_detail" THEN last_op.ret.raised ELSE last_op.raised

====
